---- MODULE Spec2Model ----
(***************************************************************************)
(* PhysioPlus (physiocore): the adaptive hold timer, the per-exercise pose *)
(* trackers and the frame loops that wire them to the repetition count.    *)
(*                                                                         *)
(* TimerSpec and TrackerSpec drive one object (the timer, one PoseTracker) *)
(* with arbitrary sequences of its own method calls; SessionSpec runs one  *)
(* exercise's frame loop.  The variable `unit` says which class or script  *)
(* a behaviour is about; it is chosen in Init and never changes.           *)
(* FactorySpec calls create_tracker, ConfigSpec reads a threshold file and *)
(* then frames, AudioSpec runs the threads of the sound manager on the one *)
(* mixer, LenientSpec runs two straight-leg-raise trackers on frames that  *)
(* differ on one leg only, SmootherSpec feeds landmark frames to the two   *)
(* landmark smoothers, HeelCycleSpec follows the cycle of each leg of the  *)
(* heel-slides tracker, and RelaxedSpec runs a strict and a lenient        *)
(* tracker on the same inputs.                                             *)
(***************************************************************************)
EXTENDS Integers, Sequences, FiniteSets, TLC

\* ------------------------------------------------------------------ bounds
\* The clock (time.time()) is read in whole ticks 0..MaxTime.
MaxTime == 5

\* Durations are kept in units of 1/Scale tick.  Every halving of an
\* overshoot (timer_utils.py:36) consumes one power of two, and an overshoot
\* that changes adaptive_hold_secs needs at least one tick of hold, so
\* MaxTime halvings are the most a behaviour can make: the arithmetic is exact.
Scale == 2 ^ MaxTime

\* Python's None, and a present optional value.
None == << >>
Some(x) == << x >>
Val(o) == o[1]

\* initial_hold_secs values a caller constructs the timer with (in ticks).
InitialHoldTicks == {0, 1, 2}

VARIABLES
    unit,                   \* the class or script this behaviour exercises
    lenient_mode,           \* flags.parse_flags() / parse_config().lenient_mode
    now,                    \* time.time(), in units
    initial_hold_secs,      \* AdaptiveHoldTimer fields
    adaptive_hold_secs,
    rep_in_progress,
    hold_start_time,
    rep_counted_this_hold,
    timer_status,           \* the dict returned by the last AdaptiveHoldTimer.update
    timer_obs,              \* observations of the timer's calls (history)
    pose_tracker,           \* the PoseTracker object's fields
    tracker_obs,            \* observations of the tracker's calls (history)
    count,                  \* the session's repetition count
    pc,                     \* "loop" in the frame loop, "done" after it, "exit" after exit()
    check_timer,            \* the loops of the scripts: hold timing runs, per side
                            \* (check_timer; l_check_timer, r_check_timer)
    old_time,               \* ... and when it started (old_time, s_time; l_time, r_time)
    HOLD_SECS,              \* the configured hold duration, in units
    display,                \* process_video(display=...)
    reps,                   \* parse_config().reps, 0 for None
    session_obs,            \* observations of the last frame (history)
    landmark_history,       \* LandmarkSmoother: samples buffered per landmark
    cap,                    \* the cv2.VideoCapture: "open" or "released"
    final_count,            \* the count printed as "Final count" and returned
    factory,                \* tracker.py: the instances made and the last call
    config,                 \* the threshold file, what was loaded from it
    mixer,                  \* pygame.mixer.music and the threads that play
    twin,                   \* a second PoseTracker, fed the same frames but
                            \* for one side's inputs
    smoother                \* a LandmarkSmoother object and its last call

timer_vars == << initial_hold_secs, adaptive_hold_secs, rep_in_progress,
                 hold_start_time, rep_counted_this_hold, timer_status, timer_obs >>

\* ------------------------------------------------------------ AdaptiveHoldTimer

\* f'{x:.2f}' of a duration of x units: hundredths of a tick, the exact
\* value rounded half to even as Python's float formatting does.
Fmt2(x) ==
    LET q == (x * 100) \div Scale
        r == (x * 100) % Scale
    IN  IF 2 * r > Scale THEN q + 1
        ELSE IF 2 * r < Scale THEN q
        ELSE IF q % 2 = 0 THEN q ELSE q + 1

NoStatus == [newly_counted_rep |-> FALSE, status_text |-> None, needs_reset |-> FALSE]

\* What the last update call was given and saw (history, not program state):
\*   in_hold_pose     the argument, None before the first call
\*   was_in_progress  rep_in_progress when the call was made
\*   elapsed          time.time() - hold_start_time read by the call, if it read it
\*   required         adaptive_hold_secs when the call was made
\*   hold_required    adaptive_hold_secs when the current hold started
\*   run_reps         results with newly_counted_rep=true in the current hold
\*   run_reached      some call of the current hold saw elapsed >= required
\*   first_reach      this call is the first of its hold that saw elapsed >= required
NoObs == [in_hold_pose |-> None, was_in_progress |-> FALSE, elapsed |-> None,
          required |-> None, hold_required |-> None,
          run_reps |-> 0, run_reached |-> FALSE, first_reach |-> FALSE]

\* AdaptiveHoldTimer.__init__
TimerInit(h) ==
    /\ initial_hold_secs = h
    /\ adaptive_hold_secs = h
    /\ rep_in_progress = FALSE
    /\ hold_start_time = None
    /\ rep_counted_this_hold = FALSE
    /\ timer_status = NoStatus
    /\ timer_obs = NoObs

\* CountsNow without the once-per-hold guard
CountsNow_Unguarded(hold_duration) == hold_duration >= adaptive_hold_secs

\* CountsNow with an exclusive comparison
CountsNow_Exclusive(hold_duration) ==
    hold_duration > adaptive_hold_secs /\ ~rep_counted_this_hold

\* CountsNow measured against the configured instead of the adapted duration
CountsNow_Initial(hold_duration) ==
    hold_duration >= initial_hold_secs /\ ~rep_counted_this_hold

\* line 27: the repetition is credited on this call
CountsNow(hold_duration) ==
    hold_duration >= adaptive_hold_secs /\ ~rep_counted_this_hold

\* StatusText shown also when nothing remains
StatusText_Inclusive(hold_duration) ==
    LET remaining_time == adaptive_hold_secs - hold_duration
    IN  IF remaining_time >= 0 THEN << "hold pose: ", Fmt2(remaining_time) >> ELSE None

\* lines 23-25
StatusText(hold_duration) ==
    LET remaining_time == adaptive_hold_secs - hold_duration
    IN  IF remaining_time > 0 THEN << "hold pose: ", Fmt2(remaining_time) >> ELSE None

\* Adapted without the floor at initial_hold_secs
Adapted_NoFloor(actual_hold_time) ==
    IF actual_hold_time >= adaptive_hold_secs
    THEN adaptive_hold_secs + (actual_hold_time - adaptive_hold_secs) \div 2
    ELSE actual_hold_time

\* Adapted taking the whole overshoot
Adapted_WholeOvershoot(actual_hold_time) ==
    IF actual_hold_time >= adaptive_hold_secs
    THEN actual_hold_time
    ELSE IF actual_hold_time >= initial_hold_secs
         THEN actual_hold_time
         ELSE adaptive_hold_secs

\* lines 34-40: adaptive_hold_secs after a hold of actual_hold_time
Adapted(actual_hold_time) ==
    IF actual_hold_time >= adaptive_hold_secs
    THEN adaptive_hold_secs + (actual_hold_time - adaptive_hold_secs) \div 2
    ELSE IF actual_hold_time >= initial_hold_secs
         THEN actual_hold_time
         ELSE adaptive_hold_secs

\* NeedsReset without the test of rep_in_progress
NeedsReset_AnyFalse(in_hold_pose) == ~in_hold_pose

\* lines 30-31, 42: the call ends a hold
NeedsReset(in_hold_pose) == ~in_hold_pose /\ rep_in_progress

\* Holds taking the call that starts a hold for one that continues it
Holds_FromStart(in_hold_pose) == in_hold_pose

\* lines 16-17, 21: the call continues a hold that an earlier call started
Holds(in_hold_pose) == in_hold_pose /\ rep_in_progress

\* AdaptiveHoldTimer.update(in_hold_pose), the whole method; time.time() = now
TimerUpdate(in_hold_pose) ==
    LET starts == in_hold_pose /\ ~rep_in_progress
        holds == Holds(in_hold_pose)
        ends == NeedsReset(in_hold_pose)
        t == IF rep_in_progress THEN now - Val(hold_start_time) ELSE 0
        newly_counted_rep == holds /\ CountsNow(t)
        reached == holds /\ t >= adaptive_hold_secs
    IN  /\ rep_in_progress' = in_hold_pose
        /\ hold_start_time' = IF starts THEN Some(now)
                              ELSE IF holds THEN hold_start_time ELSE None
        /\ rep_counted_this_hold' = (holds /\ (rep_counted_this_hold \/ newly_counted_rep))
        /\ adaptive_hold_secs' = IF ends THEN Adapted(t) ELSE adaptive_hold_secs
        /\ timer_status' = [newly_counted_rep |-> newly_counted_rep,
                            status_text |-> IF holds THEN StatusText(t) ELSE None,
                            needs_reset |-> ends]
        /\ timer_obs' = [in_hold_pose |-> Some(in_hold_pose),
                         was_in_progress |-> rep_in_progress,
                         elapsed |-> IF rep_in_progress THEN Some(t) ELSE None,
                         required |-> Some(adaptive_hold_secs),
                         hold_required |-> IF starts THEN Some(adaptive_hold_secs)
                                           ELSE IF rep_in_progress
                                                THEN timer_obs.hold_required ELSE None,
                         run_reps |-> IF rep_in_progress
                                      THEN timer_obs.run_reps
                                           + (IF newly_counted_rep THEN 1 ELSE 0)
                                      ELSE 0,
                         run_reached |-> rep_in_progress
                                         /\ (timer_obs.run_reached \/ reached),
                         first_reach |-> reached /\ ~timer_obs.run_reached]
        /\ UNCHANGED initial_hold_secs

\* ------------------------------------------------------------------ PoseTrackers
tracker_vars == << pose_tracker, tracker_obs >>
app_vars == << factory, config, mixer, twin, smoother >>
session_vars ==
    << count, pc, check_timer, old_time, HOLD_SECS, display, reps, session_obs,
       landmark_history, cap, final_count >>

\* lib.basic_math.between(lo, value, hi): inclusive on both bounds
between(lo, v, hi) == lo <= v /\ v <= hi

\* ---- bridging.py
bridging_knee_angle_min == 40
bridging_knee_angle_max == 90
bridging_rest_angle_min == 100
bridging_rest_angle_max == 130
bridging_raise_angle_min == 155
bridging_raise_angle_max == 180

BridgingKneeAngles == {40, 90, 91}
BridgingRaiseAngles == {100, 130, 140, 155, 180}
BridgingFrames ==
    [lying_down : BOOLEAN,
     l_knee_angle : BridgingKneeAngles, r_knee_angle : BridgingKneeAngles,
     l_ankle_close : BOOLEAN, r_ankle_close : BOOLEAN,
     l_raise_angle : BridgingRaiseAngles, r_raise_angle : BridgingRaiseAngles]

BridgingKnee(a) == between(bridging_knee_angle_min, a, bridging_knee_angle_max)
BridgingRest(a) == between(bridging_rest_angle_min, a, bridging_rest_angle_max)
BridgingRaise(a) == between(bridging_raise_angle_min, a, bridging_raise_angle_max)

\* lines 98-103: the value assigned to resting_pose; mode is the value of
\* the global lenient_mode
BridgingRestCondIn(mode, f) ==
    LET lenient == IF mode THEN TRUE
                   ELSE /\ f.l_ankle_close /\ f.r_ankle_close
                        /\ BridgingKnee(f.r_knee_angle) /\ BridgingKnee(f.l_knee_angle)
                        /\ BridgingRest(f.l_raise_angle) /\ BridgingRest(f.r_raise_angle)
    IN  /\ lenient /\ f.lying_down
        /\ (f.l_ankle_close \/ f.r_ankle_close)
        /\ (BridgingKnee(f.r_knee_angle) \/ BridgingKnee(f.l_knee_angle))
        /\ (BridgingRest(f.l_raise_angle) \/ BridgingRest(f.r_raise_angle))

\* the same with the lenient_mode flag of the run
BridgingRestCond(f) == BridgingRestCondIn(lenient_mode, f)

\* lines 108-111: the test that sets raise_pose
BridgingRaiseCondIn(mode, f) ==
    LET lenient == IF mode THEN TRUE
                   ELSE /\ BridgingRaise(f.l_raise_angle) /\ BridgingRaise(f.r_raise_angle)
                        /\ BridgingKnee(f.r_knee_angle) /\ BridgingKnee(f.l_knee_angle)
    IN  /\ lenient
        /\ (BridgingRaise(f.l_raise_angle) \/ BridgingRaise(f.r_raise_angle))
        /\ (BridgingKnee(f.r_knee_angle) \/ BridgingKnee(f.l_knee_angle))

\* the same with the lenient_mode flag of the run
BridgingRaiseCond(f) == BridgingRaiseCondIn(lenient_mode, f)

BridgingNew == [resting_pose |-> FALSE, raise_pose |-> FALSE]

\* PoseTracker.updateTracker, bridging.py:96-114; mode is the value of the global
\* lenient_mode the method reads
BridgingUpdateTrackerIn(mode, t, f) ==
    LET resting == IF ~t.resting_pose THEN BridgingRestCondIn(mode, f) ELSE t.resting_pose
        raise0 == IF ~t.resting_pose THEN FALSE ELSE t.raise_pose
    IN  [resting_pose |-> resting,
         raise_pose |-> IF resting THEN BridgingRaiseCondIn(mode, f) ELSE raise0]

\* updateTracker re-evaluating the baseline on every frame
BridgingUpdateTracker_Reevaluated(t, f) ==
    [resting_pose |-> BridgingRestCond(f),
     raise_pose |-> BridgingRestCond(f) /\ BridgingRaiseCond(f)]

\* updateTracker keeping a raise_pose once set
BridgingUpdateTracker_Latched(t, f) ==
    LET resting == IF ~t.resting_pose THEN BridgingRestCond(f) ELSE t.resting_pose
    IN  [resting_pose |-> resting,
         raise_pose |-> resting /\ (BridgingRaiseCond(f) \/ t.raise_pose)]

\* PoseTracker.updateTracker with the lenient_mode flag of the run
BridgingUpdateTracker(t, f) == BridgingUpdateTrackerIn(lenient_mode, t, f)

\* resetTracker forgetting raise_pose
BridgingResetTracker_RestOnly(t) == [t EXCEPT !.resting_pose = FALSE]

\* PoseTracker.resetTracker, bridging.py:116-118
BridgingResetTracker(t) == [t EXCEPT !.raise_pose = FALSE, !.resting_pose = FALSE]

\* ---- cobra_stretch.py
CobraElbowAngles == {59, 60, 121}
CobraRaiseAngles == {149, 150, 165, 166}
CobraHeadAngles == {99, 110, 126}
CobraFrames ==
    [angle_left_elb : CobraElbowAngles, angle_right_elb : CobraElbowAngles,
     raise_angle : CobraRaiseAngles, wrist_close : BOOLEAN, wrist_near_torse : BOOLEAN,
     head_angle : CobraHeadAngles, lower_body_prone : BOOLEAN]

\* lines 45-47
CobraRestCondIn(mode, f) ==
    LET lenient == IF mode THEN TRUE
                   ELSE f.wrist_close /\ f.wrist_near_torse /\ f.head_angle < 100
    IN  /\ lenient /\ f.lower_body_prone
        /\ (f.angle_left_elb < 60 \/ f.angle_right_elb < 60)
        /\ f.raise_angle > 165

\* the same with the lenient_mode flag of the run
CobraRestCond(f) == CobraRestCondIn(lenient_mode, f)

\* lines 51-53
CobraRaiseCondIn(mode, f) ==
    LET lenient == IF mode THEN TRUE
                   ELSE f.wrist_close /\ f.head_angle > 125
    IN  /\ lenient /\ f.lower_body_prone
        /\ (f.angle_left_elb > 120 \/ f.angle_right_elb > 120)
        /\ f.raise_angle < 150

\* the same with the lenient_mode flag of the run
CobraRaiseCond(f) == CobraRaiseCondIn(lenient_mode, f)

CobraNew == [resting_pose |-> FALSE, raise_pose |-> FALSE]

\* PoseTracker.updateTracker, cobra_stretch.py:43-53; mode is the value of the global
\* lenient_mode the method reads
CobraUpdateTrackerIn(mode, t, f) ==
    LET resting == IF ~t.resting_pose THEN CobraRestCondIn(mode, f) ELSE t.resting_pose
        raise0 == IF ~t.resting_pose THEN FALSE ELSE t.raise_pose
    IN  [resting_pose |-> resting,
         raise_pose |-> IF resting THEN CobraRaiseCondIn(mode, f) ELSE raise0]

\* PoseTracker.updateTracker with the lenient_mode flag of the run
CobraUpdateTracker(t, f) == CobraUpdateTrackerIn(lenient_mode, t, f)

\* resetTracker flipping resting_pose instead of clearing it
CobraResetTracker_Toggle(t) ==
    [t EXCEPT !.resting_pose = ~t.resting_pose, !.raise_pose = FALSE]

\* PoseTracker.resetTracker, cobra_stretch.py:55-57
CobraResetTracker(t) == [t EXCEPT !.resting_pose = FALSE, !.raise_pose = FALSE]

\* ---- ankle_toe_movement.py
relax_ankle_angle_min == 80
relax_ankle_angle_max == 110
stretch_ankle_angle_min == 140
stretch_ankle_angle_max == 180

AnkleAngles == {80, 110, 120, 140, 180}
AnkleToeFrames ==
    [lower_body_grounded : BOOLEAN,
     l_ankle_stretch_angle : AnkleAngles, r_ankle_stretch_angle : AnkleAngles]

\* lines 70-72
AnkleToeRelaxCond(f) ==
    /\ f.lower_body_grounded
    /\ between(relax_ankle_angle_min, f.l_ankle_stretch_angle, relax_ankle_angle_max)
    /\ between(relax_ankle_angle_min, f.r_ankle_stretch_angle, relax_ankle_angle_max)

\* the stretch test with the two modes exchanged
AnkleToeStretchCondIn_Exchanged(mode, f) ==
    LET l_ankle_stretched ==
            between(stretch_ankle_angle_min, f.l_ankle_stretch_angle, stretch_ankle_angle_max)
        r_ankle_stretched ==
            between(stretch_ankle_angle_min, f.r_ankle_stretch_angle, stretch_ankle_angle_max)
    IN  /\ f.lower_body_grounded
        /\ IF mode THEN l_ankle_stretched /\ r_ankle_stretched
           ELSE l_ankle_stretched \/ r_ankle_stretched

\* lines 76-82; mode is the value of the global lenient_mode
AnkleToeStretchCondIn(mode, f) ==
    LET l_ankle_stretched ==
            between(stretch_ankle_angle_min, f.l_ankle_stretch_angle, stretch_ankle_angle_max)
        r_ankle_stretched ==
            between(stretch_ankle_angle_min, f.r_ankle_stretch_angle, stretch_ankle_angle_max)
        ankles_stretched_lenient == l_ankle_stretched \/ r_ankle_stretched
        ankles_stretched_strict == l_ankle_stretched /\ r_ankle_stretched
        ankles_stretched == IF mode THEN ankles_stretched_lenient
                            ELSE ankles_stretched_strict
    IN  f.lower_body_grounded /\ ankles_stretched

\* the same with the lenient_mode flag of the run
AnkleToeStretchCond(f) == AnkleToeStretchCondIn(lenient_mode, f)

AnkleToeNew == [relax_pose |-> FALSE, stretch_pose |-> FALSE]

\* PoseTracker.updateTracker, ankle_toe_movement.py:68-85; mode is the value of the global
\* lenient_mode the method reads
AnkleToeUpdateTrackerIn(mode, t, f) ==
    LET relax == IF ~t.relax_pose THEN AnkleToeRelaxCond(f) ELSE t.relax_pose
        stretch0 == IF ~t.relax_pose THEN FALSE ELSE t.stretch_pose
    IN  [relax_pose |-> relax,
         stretch_pose |-> IF relax THEN AnkleToeStretchCondIn(mode, f) ELSE stretch0]

\* PoseTracker.updateTracker with the lenient_mode flag of the run
AnkleToeUpdateTracker(t, f) == AnkleToeUpdateTrackerIn(lenient_mode, t, f)

\* resetTracker clearing nothing
AnkleToeResetTracker_Keep(t) == t

\* PoseTracker.resetTracker, ankle_toe_movement.py:87-89
AnkleToeResetTracker(t) == [t EXCEPT !.relax_pose = FALSE, !.stretch_pose = FALSE]

\* ---- shoulder_blade_squeeze.py; ratios are kept in hundredths
rest_threshold == 110
squeeze_threshold == 90

SbsRatios == {0, 80, 90, 100, 110, 120}
SbsCalls == [shoulder_hip_ratio : SbsRatios]

SbsIsResting(f) == f.shoulder_hip_ratio > rest_threshold
SbsIsSqueezing(f) == f.shoulder_hip_ratio < squeeze_threshold

SbsNew == [resting_pose |-> FALSE, squeeze_pose |-> FALSE]

\* PoseTracker.update, shoulder_blade_squeeze.py:26-37
SbsUpdate(t, f) ==
    IF ~t.resting_pose
    THEN [resting_pose |-> IF SbsIsResting(f) THEN TRUE ELSE t.resting_pose,
          squeeze_pose |-> FALSE]
    ELSE [t EXCEPT !.squeeze_pose = SbsIsSqueezing(f)]

\* a reset that leaves resting_pose standing
SbsReset_KeepResting(t) == [t EXCEPT !.squeeze_pose = FALSE]

\* PoseTracker.reset, shoulder_blade_squeeze.py:39-41
SbsReset(t) == [t EXCEPT !.resting_pose = FALSE, !.squeeze_pose = FALSE]

\* ---- sbs2.py; a point is given by its x coordinate
Sbs2Xs == {4, 5, 6}
Sbs2Frames == [left_elbow : Sbs2Xs, left_shoulder : {5},
               right_elbow : Sbs2Xs, right_shoulder : {5}]

\* lines 38-42
is_elbow_squeezed(elbow, shoulder) == shoulder < elbow
is_elbow_expanded(elbow, shoulder) == shoulder > elbow

\* line 25
Sbs2ExpandCond(f) ==
    /\ is_elbow_expanded(f.left_elbow, f.left_shoulder)
    /\ is_elbow_expanded(f.right_elbow, f.right_shoulder)

\* line 28, without the expand flag
Sbs2SqueezeCond(f) ==
    /\ is_elbow_squeezed(f.left_elbow, f.left_shoulder)
    /\ is_elbow_squeezed(f.right_elbow, f.right_shoulder)

Sbs2New == [squeezed |-> FALSE, expand |-> FALSE]

\* PoseTracker.updateTracker, sbs2.py:18-31
Sbs2UpdateTracker(t, f) ==
    LET expand == IF Sbs2ExpandCond(f) THEN TRUE ELSE t.expand
    IN  [expand |-> expand,
         squeezed |-> IF Sbs2SqueezeCond(f) /\ expand THEN TRUE ELSE t.squeezed]

\* PoseTracker.resetTracker, sbs2.py:33-35
Sbs2ResetTracker(t) == [t EXCEPT !.squeezed = FALSE, !.expand = FALSE]

\* ---- any_straight_leg_raise.py
slr_knee_angle_min == 155
slr_knee_angle_max == 180
slr_rest_pose_raise_angle_min == 160
slr_rest_pose_raise_angle_max == 180
slr_raise_pose_raise_angle_min == 100
slr_raise_pose_raise_angle_max == 160

Abs(x) == IF x < 0 THEN -x ELSE x

SlrKneeAngles == {154, 155}
SlrRaiseAngles == {-170, 100, 160}
SlrFrames ==
    [lying_down : BOOLEAN, side_lying : BOOLEAN,
     l_knee_angle : SlrKneeAngles, r_knee_angle : SlrKneeAngles,
     l_ankle_close : BOOLEAN, r_ankle_close : BOOLEAN,
     l_raise_angle : SlrRaiseAngles, r_raise_angle : SlrRaiseAngles,
     lknee_high : BOOLEAN, rknee_high : BOOLEAN]

\* the arguments of updateTracker that belong to one leg
Leg(f, side) ==
    IF side = "l"
    THEN [knee_angle |-> f.l_knee_angle, ankle_close |-> f.l_ankle_close,
          raise_angle |-> f.l_raise_angle, knee_high |-> f.lknee_high]
    ELSE [knee_angle |-> f.r_knee_angle, ankle_close |-> f.r_ankle_close,
          raise_angle |-> f.r_raise_angle, knee_high |-> f.rknee_high]

Other(side) == IF side = "l" THEN "r" ELSE "l"

SlrKnee(a) == between(slr_knee_angle_min, a, slr_knee_angle_max)

\* SlrLenient asking for the other leg whatever the mode
SlrLenient_Strict(f, side) ==
    Leg(f, Other(side)).ankle_close /\ SlrKnee(Leg(f, Other(side)).knee_angle)

\* lines 87, 92, 98, 106: the contralateral requirement
SlrLenient(f, side) ==
    IF lenient_mode THEN TRUE
    ELSE Leg(f, Other(side)).ankle_close /\ SlrKnee(Leg(f, Other(side)).knee_angle)

\* lines 88, 93
SlrRestCond(f, side) ==
    /\ ~f.side_lying /\ SlrLenient(f, side) /\ f.lying_down
    /\ Leg(f, side).ankle_close
    /\ SlrKnee(Leg(f, side).knee_angle)
    /\ between(slr_rest_pose_raise_angle_min, Abs(Leg(f, side).raise_angle),
               slr_rest_pose_raise_angle_max)

\* lines 99, 107
SlrRaiseCond(f, side) ==
    /\ ~f.side_lying /\ SlrLenient(f, side) /\ f.lying_down
    /\ Leg(f, side).knee_high
    /\ between(slr_raise_pose_raise_angle_min, Leg(f, side).raise_angle,
               slr_raise_pose_raise_angle_max)
    /\ SlrKnee(Leg(f, side).knee_angle)

TwoSidedNew == [l_resting_pose |-> FALSE, r_resting_pose |-> FALSE,
                l_raise_pose |-> FALSE, r_raise_pose |-> FALSE]

\* PoseTracker.updateTracker, any_straight_leg_raise.py:85-110
SlrUpdateTracker(t, f) ==
    LET l_resting == IF ~t.l_resting_pose THEN SlrRestCond(f, "l") ELSE t.l_resting_pose
        l_raise0 == IF ~t.l_resting_pose THEN FALSE ELSE t.l_raise_pose
        r_resting == IF ~t.r_resting_pose THEN SlrRestCond(f, "r") ELSE t.r_resting_pose
        r_raise0 == IF ~t.r_resting_pose THEN FALSE ELSE t.r_raise_pose
    IN  [l_resting_pose |-> l_resting,
         r_resting_pose |-> r_resting,
         l_raise_pose |-> IF l_resting THEN SlrRaiseCond(f, "l") ELSE l_raise0,
         r_raise_pose |-> IF r_resting THEN SlrRaiseCond(f, "r") ELSE r_raise0]

\* PoseTracker.resetTracker, any_straight_leg_raise.py:112-116
SlrResetTracker(t) ==
    [t EXCEPT !.l_raise_pose = FALSE, !.r_raise_pose = FALSE,
              !.l_resting_pose = FALSE, !.r_resting_pose = FALSE]

\* ---- any_prone_straight_leg_raise.py
prone_knee_angle_min == 150
prone_knee_angle_max == 180
prone_rest_pose_raise_angle_min == 160
prone_rest_pose_raise_angle_max == 180
prone_raise_pose_raise_angle_min == 100
prone_raise_pose_raise_angle_max == 140

ProneKneeAngles == {149, 150}
ProneRaiseAngles == {100, 140, 150, 160}
ProneFrames ==
    [prone_lying_down : BOOLEAN,
     l_knee_angle : ProneKneeAngles, r_knee_angle : ProneKneeAngles,
     l_ankle_close : BOOLEAN, r_ankle_close : BOOLEAN,
     l_raise_angle : ProneRaiseAngles, r_raise_angle : ProneRaiseAngles,
     lknee_high : BOOLEAN, rknee_high : BOOLEAN]

ProneKnee(a) == between(prone_knee_angle_min, a, prone_knee_angle_max)

\* lines 83, 88, 94, 102
ProneLenient(f, side) ==
    IF lenient_mode THEN TRUE
    ELSE Leg(f, Other(side)).ankle_close /\ ProneKnee(Leg(f, Other(side)).knee_angle)

\* lines 84, 89
ProneRestCond(f, side) ==
    /\ ProneLenient(f, side) /\ f.prone_lying_down
    /\ Leg(f, side).ankle_close
    /\ ProneKnee(Leg(f, side).knee_angle)
    /\ between(prone_rest_pose_raise_angle_min, Leg(f, side).raise_angle,
               prone_rest_pose_raise_angle_max)

\* lines 95, 103
ProneRaiseCond(f, side) ==
    /\ ProneLenient(f, side) /\ f.prone_lying_down
    /\ Leg(f, side).knee_high
    /\ between(prone_raise_pose_raise_angle_min, Leg(f, side).raise_angle,
               prone_raise_pose_raise_angle_max)
    /\ ProneKnee(Leg(f, side).knee_angle)

\* PoseTracker.updateTracker, any_prone_straight_leg_raise.py:81-106
ProneUpdateTracker(t, f) ==
    LET l_resting == IF ~t.l_resting_pose THEN ProneRestCond(f, "l") ELSE t.l_resting_pose
        l_raise0 == IF ~t.l_resting_pose THEN FALSE ELSE t.l_raise_pose
        r_resting == IF ~t.r_resting_pose THEN ProneRestCond(f, "r") ELSE t.r_resting_pose
        r_raise0 == IF ~t.r_resting_pose THEN FALSE ELSE t.r_raise_pose
    IN  [l_resting_pose |-> l_resting,
         r_resting_pose |-> r_resting,
         l_raise_pose |-> IF l_resting THEN ProneRaiseCond(f, "l") ELSE l_raise0,
         r_raise_pose |-> IF r_resting THEN ProneRaiseCond(f, "r") ELSE r_raise0]

\* PoseTracker.resetTracker, any_prone_straight_leg_raise.py:108-112
ProneResetTracker(t) ==
    [t EXCEPT !.l_raise_pose = FALSE, !.r_raise_pose = FALSE,
              !.l_resting_pose = FALSE, !.r_resting_pose = FALSE]

\* ---- heel_slides.py; the fields l_x / r_x of PoseTracker are t.l.x / t.r.x
required_consecutive_frames == 3
knee_angle_extension_min == 160
knee_angle_extension_max == 180
knee_angle_flexion_min == 45
knee_angle_flexion_max == 90
\* the two distance ratios, in tenths
heel_hip_min_distance_ratio == 1
heel_hip_max_distance_ratio == 5
\* min_cycle_time = 1.0 second, one tick
min_cycle_time == Scale

\* The consecutive-frame counters are followed up to MaxConsecutive.
MaxConsecutive == 3

\* one leg as a frame shows it: heel on the ground, knee angle, hip-heel
\* distance and the leg length calculate_leg_length returns (0 when degenerate)
HeelLegs ==
    { [heel_close |-> TRUE,  knee_angle |-> 160, hip_heel_dist |-> 5, leg_length |-> 10],
      [heel_close |-> TRUE,  knee_angle |-> 90,  hip_heel_dist |-> 1, leg_length |-> 10],
      [heel_close |-> TRUE,  knee_angle |-> 45,  hip_heel_dist |-> 5, leg_length |-> 0],
      [heel_close |-> FALSE, knee_angle |-> 170, hip_heel_dist |-> 6, leg_length |-> 10] }
HeelFrames == [lying_down : BOOLEAN, l : HeelLegs, r : HeelLegs]

\* lines 97-98 with the comparisons of lines 103 and 116: ratio >= thr, ratio <= thr
HeelRatioGE(leg, thr) ==
    IF leg.leg_length > 0 THEN leg.hip_heel_dist * 10 >= thr * leg.leg_length
    ELSE 0 >= thr
HeelRatioLE(leg, thr) ==
    IF leg.leg_length > 0 THEN leg.hip_heel_dist * 10 <= thr * leg.leg_length
    ELSE 0 <= thr

\* lines 101-103, 132-134
HeelIsExtended(lying_down, leg) ==
    /\ lying_down /\ leg.heel_close
    /\ between(knee_angle_extension_min, leg.knee_angle, knee_angle_extension_max)
    /\ HeelRatioGE(leg, heel_hip_max_distance_ratio)

\* lines 114-116, 145-147
HeelIsFlexed(lying_down, leg) ==
    /\ lying_down /\ leg.heel_close
    /\ between(knee_angle_flexion_min, leg.knee_angle, knee_angle_flexion_max)
    /\ HeelRatioLE(leg, heel_hip_min_distance_ratio)

HeelSideNew(t0) ==
    [extended_pose |-> FALSE, flexed_pose |-> FALSE, leg_length |-> 0,
     cycle_completed |-> FALSE, extended_count |-> 0, flexed_count |-> 0,
     in_transition |-> FALSE, last_cycle_time |-> t0]

\* PoseTracker.__init__, heel_slides.py:54-74
HeelNew(t0) == [l |-> HeelSideNew(t0), r |-> HeelSideNew(t0)]

\* one leg's part of PoseTracker.update, lines 94-129 (left) and 95-160 (right)
HeelSideUpdate(s, lying_down, leg, current_time) ==
    LET is_extended == HeelIsExtended(lying_down, leg)
        extended_count == IF is_extended THEN s.extended_count + 1 ELSE 0
        extended_pose == IF extended_count >= required_consecutive_frames
                         THEN TRUE ELSE s.extended_pose
        tracking_flexion == extended_pose /\ ~s.in_transition
        flexed_count == IF tracking_flexion
                        THEN (IF HeelIsFlexed(lying_down, leg)
                              THEN s.flexed_count + 1 ELSE 0)
                        ELSE s.flexed_count
        flexed_now == tracking_flexion /\ flexed_count >= required_consecutive_frames
        flexed_pose == IF flexed_now THEN TRUE ELSE s.flexed_pose
        in_transition == IF flexed_now THEN TRUE ELSE s.in_transition
        completes == /\ flexed_pose /\ in_transition
                     /\ is_extended
                     /\ extended_count >= required_consecutive_frames
                     /\ current_time - s.last_cycle_time >= min_cycle_time
    IN  [extended_pose |-> extended_pose, flexed_pose |-> flexed_pose,
         leg_length |-> leg.leg_length,
         cycle_completed |-> IF completes THEN TRUE ELSE s.cycle_completed,
         extended_count |-> extended_count, flexed_count |-> flexed_count,
         in_transition |-> in_transition,
         last_cycle_time |-> IF completes THEN current_time ELSE s.last_cycle_time]

\* PoseTracker.update, heel_slides.py:91-160
HeelUpdate(t, f, current_time) ==
    [l |-> HeelSideUpdate(t.l, f.lying_down, f.l, current_time),
     r |-> HeelSideUpdate(t.r, f.lying_down, f.r, current_time)]

\* a reset that leaves the leg's flexed phase standing
HeelSideReset_KeepFlexed(s) ==
    [s EXCEPT !.extended_pose = FALSE, !.cycle_completed = FALSE,
              !.extended_count = 0, !.flexed_count = 0]

\* the six assignments of resetLeftTracker / resetRightTracker
HeelSideReset(s) ==
    [s EXCEPT !.extended_pose = FALSE, !.flexed_pose = FALSE,
              !.cycle_completed = FALSE, !.extended_count = 0,
              !.flexed_count = 0, !.in_transition = FALSE]

\* PoseTracker.resetLeftTracker, heel_slides.py:162-168
HeelResetLeftTracker(t) == [t EXCEPT !.l = HeelSideReset(t.l)]

\* PoseTracker.resetRightTracker, heel_slides.py:170-176
HeelResetRightTracker(t) == [t EXCEPT !.r = HeelSideReset(t.r)]

\* a frame the bounded counters can follow
HeelWithinBounds(t, f) ==
    /\ HeelUpdate(t, f, now).l.extended_count <= MaxConsecutive
    /\ HeelUpdate(t, f, now).r.extended_count <= MaxConsecutive

\* ------------------------------------------------------------------ the clock
\* The heel-slides tracker is followed for HeelMaxTime ticks; a tracker
\* that never reads the clock is followed at one instant.
HeelMaxTime == 2

\* A frame loop that times holds is followed for SessionMaxTime ticks.
SessionMaxTime == 4

\* The loops that time each leg are followed for TwoSidedMaxTime ticks.
TwoSidedMaxTime == 3

\* The sbs2 loop, which needs no time to count, is followed up to MaxCount.
MaxCount == 3

ClockLimit ==
    CASE unit \in {"heel_slides", "HeelSlidesTracker", "heel_slides.PoseTracker"}
            -> HeelMaxTime
      [] unit = "AdaptiveHoldTimer" -> MaxTime
      [] unit \in {"bridging.py", "cobra_stretch.py", "ankle_toe_movement.py",
                   "ShoulderBladeSqueezeTracker"} -> SessionMaxTime
      [] unit \in {"any_straight_leg_raise.py", "any_prone_straight_leg_raise.py"}
            -> TwoSidedMaxTime
      [] OTHER -> 0

\* time.time() moves on by one tick between two reads.
Tick ==
    /\ now < ClockLimit * Scale
    /\ now' = now + Scale
    /\ pc = "loop"
    /\ UNCHANGED << unit, lenient_mode, timer_vars, tracker_vars, session_vars, app_vars >>

\* no frame loop is running
NoSession ==
    /\ count = 0
    /\ pc = "loop"
    /\ check_timer = << >>
    /\ old_time = << >>
    /\ HOLD_SECS = 0
    /\ display = FALSE
    /\ reps = 0
    /\ session_obs = None
    /\ landmark_history = 0
    /\ cap = "open"
    /\ final_count = None

\* no tracker is made by name, no threshold file is read, no sound is asked for
NoApp ==
    /\ factory = None
    /\ config = None
    /\ mixer = None
    /\ twin = None
    /\ smoother = None

\* --------------------------------------- TimerSpec: the timer under any calls
CallTimerUpdate ==
    /\ unit = "AdaptiveHoldTimer"
    /\ \E in_hold_pose \in BOOLEAN : TimerUpdate(in_hold_pose)
    /\ UNCHANGED << unit, lenient_mode, now, tracker_vars, session_vars, app_vars >>

vars == << unit, lenient_mode, now, timer_vars, tracker_vars, session_vars, app_vars >>

TimerSpecInit ==
    /\ unit = "AdaptiveHoldTimer"
    /\ lenient_mode = FALSE
    /\ now = 0
    /\ \E h \in InitialHoldTicks : TimerInit(h * Scale)
    /\ pose_tracker = None
    /\ tracker_obs = None
    /\ NoSession
    /\ NoApp

TimerNext ==
    \/ Tick
    \/ CallTimerUpdate

TimerSpec == TimerSpecInit /\ [][TimerNext]_vars

\* ------------------------------- TrackerSpec: one PoseTracker under any calls
TrackerUnits ==
    {"bridging", "cobra_stretch", "ankle_toe_movement", "any_straight_leg_raise",
     "any_prone_straight_leg_raise", "shoulder_blade_squeeze", "sbs2", "heel_slides"}

\* the PoseTracker class a unit is or uses
Kind ==
    CASE unit = "bridging.py" -> "bridging"
      [] unit = "cobra_stretch.py" -> "cobra_stretch"
      [] unit = "ankle_toe_movement.py" -> "ankle_toe_movement"
      [] unit = "any_straight_leg_raise.py" -> "any_straight_leg_raise"
      [] unit = "any_prone_straight_leg_raise.py" -> "any_prone_straight_leg_raise"
      [] unit = "ShoulderBladeSqueezeTracker" -> "shoulder_blade_squeeze"
      [] unit = "ShoulderBladeSqueezeTracker2" -> "sbs2"
      [] unit \in {"HeelSlidesTracker", "heel_slides.PoseTracker"} -> "heel_slides"
      [] OTHER -> unit

\* the resting/baseline flags of the tracker, one per side, and the
\* target flags in the same order
RestFlags(t) ==
    CASE Kind \in {"bridging", "cobra_stretch", "shoulder_blade_squeeze"}
            -> << t.resting_pose >>
      [] Kind = "ankle_toe_movement" -> << t.relax_pose >>
      [] Kind \in {"any_straight_leg_raise", "any_prone_straight_leg_raise"}
            -> << t.l_resting_pose, t.r_resting_pose >>
      [] Kind = "sbs2" -> << t.expand >>
      [] Kind = "heel_slides" -> << t.l.extended_pose, t.r.extended_pose >>

TargetFlags(t) ==
    CASE Kind \in {"bridging", "cobra_stretch"} -> << t.raise_pose >>
      [] Kind = "shoulder_blade_squeeze" -> << t.squeeze_pose >>
      [] Kind = "ankle_toe_movement" -> << t.stretch_pose >>
      [] Kind \in {"any_straight_leg_raise", "any_prone_straight_leg_raise"}
            -> << t.l_raise_pose, t.r_raise_pose >>
      [] Kind = "sbs2" -> << t.squeezed >>
      [] Kind = "heel_slides" -> << t.l.flexed_pose, t.r.flexed_pose >>

\* the baseline and the target conjunctions of the tracker on the inputs f
RestConds(f) ==
    CASE Kind = "bridging" -> << BridgingRestCond(f) >>
      [] Kind = "cobra_stretch" -> << CobraRestCond(f) >>
      [] Kind = "ankle_toe_movement" -> << AnkleToeRelaxCond(f) >>
      [] Kind = "any_straight_leg_raise" -> << SlrRestCond(f, "l"), SlrRestCond(f, "r") >>
      [] Kind = "any_prone_straight_leg_raise"
            -> << ProneRestCond(f, "l"), ProneRestCond(f, "r") >>
      [] Kind = "shoulder_blade_squeeze" -> << SbsIsResting(f) >>
      [] Kind = "sbs2" -> << Sbs2ExpandCond(f) >>
      [] Kind = "heel_slides" -> << HeelIsExtended(f.lying_down, f.l),
                                    HeelIsExtended(f.lying_down, f.r) >>

TargetConds(f) ==
    CASE Kind = "bridging" -> << BridgingRaiseCond(f) >>
      [] Kind = "cobra_stretch" -> << CobraRaiseCond(f) >>
      [] Kind = "ankle_toe_movement" -> << AnkleToeStretchCond(f) >>
      [] Kind = "any_straight_leg_raise" -> << SlrRaiseCond(f, "l"), SlrRaiseCond(f, "r") >>
      [] Kind = "any_prone_straight_leg_raise"
            -> << ProneRaiseCond(f, "l"), ProneRaiseCond(f, "r") >>
      [] Kind = "shoulder_blade_squeeze" -> << SbsIsSqueezing(f) >>
      [] Kind = "sbs2" -> << Sbs2SqueezeCond(f) >>
      [] Kind = "heel_slides" -> << HeelIsFlexed(f.lying_down, f.l),
                                    HeelIsFlexed(f.lying_down, f.r) >>

\* the tracker of the unit as its constructor leaves it
NewTracker(u, t0) ==
    CASE u \in {"bridging"} -> BridgingNew
      [] u = "cobra_stretch" -> CobraNew
      [] u = "ankle_toe_movement" -> AnkleToeNew
      [] u \in {"any_straight_leg_raise", "any_prone_straight_leg_raise"} -> TwoSidedNew
      [] u = "shoulder_blade_squeeze" -> SbsNew
      [] u = "sbs2" -> Sbs2New
      [] u = "heel_slides" -> HeelNew(t0)

\* What the last call on the tracker was (history, not program state):
\*   op                     the method called last
\*   repeated               the call before it was the same reset method
\*   was_target             the target flags before an update
\*   base_now, target_now   the two conjunctions on the inputs of an update
NewObs == [op |-> "new", repeated |-> FALSE, was_target |-> None,
           base_now |-> None, target_now |-> None]

ObsUpdate(f) ==
    [op |-> "update", repeated |-> FALSE, was_target |-> TargetFlags(pose_tracker),
     base_now |-> RestConds(f), target_now |-> TargetConds(f)]

ObsReset(op) ==
    [op |-> op, repeated |-> (tracker_obs.op = op), was_target |-> None,
     base_now |-> None, target_now |-> None]

TrackerFrame == UNCHANGED << unit, lenient_mode, now, timer_vars, session_vars, app_vars >>

BridgingCallUpdateTracker ==
    /\ unit = "bridging"
    /\ \E f \in BridgingFrames :
          /\ pose_tracker' = BridgingUpdateTracker(pose_tracker, f)
          /\ tracker_obs' = ObsUpdate(f)
    /\ TrackerFrame

BridgingCallResetTracker ==
    /\ unit = "bridging"
    /\ pose_tracker' = BridgingResetTracker(pose_tracker)
    /\ tracker_obs' = ObsReset("reset")
    /\ TrackerFrame

CobraCallUpdateTracker ==
    /\ unit = "cobra_stretch"
    /\ \E f \in CobraFrames :
          /\ pose_tracker' = CobraUpdateTracker(pose_tracker, f)
          /\ tracker_obs' = ObsUpdate(f)
    /\ TrackerFrame

CobraCallResetTracker ==
    /\ unit = "cobra_stretch"
    /\ pose_tracker' = CobraResetTracker(pose_tracker)
    /\ tracker_obs' = ObsReset("reset")
    /\ TrackerFrame

AnkleToeCallUpdateTracker ==
    /\ unit = "ankle_toe_movement"
    /\ \E f \in AnkleToeFrames :
          /\ pose_tracker' = AnkleToeUpdateTracker(pose_tracker, f)
          /\ tracker_obs' = ObsUpdate(f)
    /\ TrackerFrame

AnkleToeCallResetTracker ==
    /\ unit = "ankle_toe_movement"
    /\ pose_tracker' = AnkleToeResetTracker(pose_tracker)
    /\ tracker_obs' = ObsReset("reset")
    /\ TrackerFrame

SlrCallUpdateTracker ==
    /\ unit = "any_straight_leg_raise"
    /\ \E f \in SlrFrames :
          /\ pose_tracker' = SlrUpdateTracker(pose_tracker, f)
          /\ tracker_obs' = ObsUpdate(f)
    /\ TrackerFrame

SlrCallResetTracker ==
    /\ unit = "any_straight_leg_raise"
    /\ pose_tracker' = SlrResetTracker(pose_tracker)
    /\ tracker_obs' = ObsReset("reset")
    /\ TrackerFrame

ProneCallUpdateTracker ==
    /\ unit = "any_prone_straight_leg_raise"
    /\ \E f \in ProneFrames :
          /\ pose_tracker' = ProneUpdateTracker(pose_tracker, f)
          /\ tracker_obs' = ObsUpdate(f)
    /\ TrackerFrame

ProneCallResetTracker ==
    /\ unit = "any_prone_straight_leg_raise"
    /\ pose_tracker' = ProneResetTracker(pose_tracker)
    /\ tracker_obs' = ObsReset("reset")
    /\ TrackerFrame

SbsCallUpdate ==
    /\ unit = "shoulder_blade_squeeze"
    /\ \E f \in SbsCalls :
          /\ pose_tracker' = SbsUpdate(pose_tracker, f)
          /\ tracker_obs' = ObsUpdate(f)
    /\ TrackerFrame

SbsCallReset ==
    /\ unit = "shoulder_blade_squeeze"
    /\ pose_tracker' = SbsReset(pose_tracker)
    /\ tracker_obs' = ObsReset("reset")
    /\ TrackerFrame

Sbs2CallUpdateTracker ==
    /\ unit = "sbs2"
    /\ \E f \in Sbs2Frames :
          /\ pose_tracker' = Sbs2UpdateTracker(pose_tracker, f)
          /\ tracker_obs' = ObsUpdate(f)
    /\ TrackerFrame

Sbs2CallResetTracker ==
    /\ unit = "sbs2"
    /\ pose_tracker' = Sbs2ResetTracker(pose_tracker)
    /\ tracker_obs' = ObsReset("reset")
    /\ TrackerFrame

HeelCallUpdate ==
    /\ unit = "heel_slides"
    /\ \E f \in HeelFrames :
          /\ HeelWithinBounds(pose_tracker, f)
          /\ pose_tracker' = HeelUpdate(pose_tracker, f, now)
          /\ tracker_obs' = ObsUpdate(f)
    /\ TrackerFrame

HeelCallResetLeftTracker ==
    /\ unit = "heel_slides"
    /\ pose_tracker' = HeelResetLeftTracker(pose_tracker)
    /\ tracker_obs' = ObsReset("resetLeft")
    /\ TrackerFrame

HeelCallResetRightTracker ==
    /\ unit = "heel_slides"
    /\ pose_tracker' = HeelResetRightTracker(pose_tracker)
    /\ tracker_obs' = ObsReset("resetRight")
    /\ TrackerFrame

TrackerSpecInit ==
    /\ unit \in TrackerUnits
    /\ lenient_mode \in BOOLEAN
    /\ now = 0
    /\ TimerInit(0)
    /\ pose_tracker = NewTracker(Kind, now)
    /\ tracker_obs = NewObs
    /\ NoSession
    /\ NoApp

TrackerNext ==
    \/ Tick
    \/ BridgingCallUpdateTracker \/ BridgingCallResetTracker
    \/ CobraCallUpdateTracker \/ CobraCallResetTracker
    \/ AnkleToeCallUpdateTracker \/ AnkleToeCallResetTracker
    \/ SlrCallUpdateTracker \/ SlrCallResetTracker
    \/ ProneCallUpdateTracker \/ ProneCallResetTracker
    \/ SbsCallUpdate \/ SbsCallReset
    \/ Sbs2CallUpdateTracker \/ Sbs2CallResetTracker
    \/ HeelCallUpdate \/ HeelCallResetLeftTracker \/ HeelCallResetRightTracker

TrackerSpec == TrackerSpecInit /\ [][TrackerNext]_vars

\* ------------------------------------------------ SessionSpec: the frame loops
ScriptUnits ==
    {"bridging.py", "cobra_stretch.py", "ankle_toe_movement.py",
     "any_straight_leg_raise.py", "any_prone_straight_leg_raise.py"}

SessionUnits ==
    ScriptUnits \cup {"ShoulderBladeSqueezeTracker", "ShoulderBladeSqueezeTracker2",
                      "HeelSlidesTracker"}

\* the sides the session's tracker follows
SessionSides == DOMAIN TargetFlags(NewTracker(Kind, 0))

NoSide == [i \in SessionSides |-> FALSE]

\* What the last iteration of the frame loop did (history, not program state):
\*   frame         what processFrameAndGetLandmarks returned
\*   counted       the sides for which the count was incremented
\*   resets        the number of reset calls on the tracker
\*   announced     the number of announcements started
\*   held_since    per side, since when the target flag has been true at the
\*                 tracker update of every processed frame; None if it is false
\*   held_before   per side, the target flag was already true when the
\*                 frame began and still is after the tracker's update
\*   degenerate    the frame's measurement was degenerate: the landmarks were
\*                 visible and the hip distance was 0
\*   phase         shoulder-blade-squeeze session only: how far the present
\*                 repetition has come, see SbsPhase
NewSessionObs ==
    [frame |-> "none", counted |-> NoSide, resets |-> 0, announced |-> 0,
     held_since |-> [i \in SessionSides |-> None], held_before |-> NoSide,
     stop_checked |-> FALSE, degenerate |-> FALSE, phase |-> "idle"]

HeldSince(t1) ==
    [i \in SessionSides |->
        IF TargetFlags(t1)[i]
        THEN (IF TargetFlags(pose_tracker)[i] THEN session_obs.held_since[i]
              ELSE Some(now))
        ELSE None]

HeldBefore(t1) ==
    [i \in SessionSides |-> TargetFlags(pose_tracker)[i] /\ TargetFlags(t1)[i]]

ObsFrame(t1, counted, resets, announced) ==
    [frame |-> "pose", counted |-> counted, resets |-> resets, announced |-> announced,
     held_since |-> HeldSince(t1), held_before |-> HeldBefore(t1),
     stop_checked |-> FALSE, degenerate |-> FALSE, phase |-> session_obs.phase]

ObsSkipped(kind) ==
    [session_obs EXCEPT !.frame = kind, !.counted = NoSide, !.resets = 0,
                        !.announced = 0, !.stop_checked = FALSE,
                        !.degenerate = FALSE]

\* whether the frame's processing comes to read the keys by which the user
\* asks the session to stop (q, or q in the pause loop): the scripts read
\* them on every frame with a pose (bridging.py:222-235), the classes under
\* `if display:` only (shoulder_blade_squeeze.py:149-158)
StopChecked == unit \in ScriptUnits \/ display

\* the frame's observation, with whether a stop was looked for
ObsStop(obs) == [obs EXCEPT !.stop_checked = StopChecked]

SessionFrame ==
    UNCHANGED << unit, lenient_mode, now, HOLD_SECS, display, reps, tracker_obs,
                 cap, final_count, app_vars >>

\* the scripts and the shoulder-blade sessions have no smoother
NoSmoother == UNCHANGED landmark_history

\* ---- the loops of bridging.py, cobra_stretch.py and ankle_toe_movement.py
\* cv2.waitKey after the frame, and inside the pause loop
ScriptKeys == {"none", "q", "p then r", "p then q"}

\* bridging.py:222-235, cobra_stretch.py:180-193, ankle_toe_movement.py:179-192
ScriptAfterKey(key) ==
    IF key = "q" THEN "done" ELSE IF key = "p then q" THEN "exit" ELSE "loop"

\* `if not success: break`, `if frame is None: continue`,
\* `if not pose_landmarks: continue` (bridging.py:132-143)
ScriptNoPose(kind) ==
    /\ pc' = IF kind = "eof" THEN "done" ELSE "loop"
    /\ session_obs' = ObsSkipped(kind)
    /\ UNCHANGED << count, check_timer, old_time, pose_tracker >>

\* a comparison that any running timing passes
HoldElapsed_AtOnce(cur_time, started) == TRUE

\* cur_time - old_time > HOLD_SECS (bridging.py:181, cobra_stretch.py:136,
\* ankle_toe_movement.py:141, any_straight_leg_raise.py:190 and 207,
\* any_prone_straight_leg_raise.py:183 and 200)
HoldElapsed(cur_time, started) == cur_time - Val(started) > HOLD_SECS

\* a loop that lets the timing run on over a frame without the target pose
StillTiming_Kept(rest, tgt, timing) == timing

\* `if pose_tracker.resting_pose and not pose_tracker.raise_pose:
\*      check_timer = False` (bridging.py:170-171, cobra_stretch.py:125-126,
\* ankle_toe_movement.py:130-131, any_straight_leg_raise.py:176-179,
\* any_prone_straight_leg_raise.py:170-173): check_timer after these lines
StillTiming(rest, tgt, timing) == IF rest /\ ~tgt THEN FALSE ELSE timing

\* bridging.py:167-188, cobra_stretch.py:122-143, ankle_toe_movement.py:128-148
\* on the tracker t1 that updateTracker left
ScriptPoseFrame(t1, reset_t1) ==
    LET rest == RestFlags(t1)[1]
        tgt == TargetFlags(t1)[1]
        timing == StillTiming(rest, tgt, check_timer[1])
        starts == rest /\ tgt /\ ~timing
        counts == rest /\ tgt /\ timing /\ HoldElapsed(now, old_time[1])
    IN  /\ count' = IF counts THEN count + 1 ELSE count
        /\ pose_tracker' = IF counts THEN reset_t1 ELSE t1
        /\ check_timer' = << IF starts THEN TRUE ELSE IF counts THEN FALSE ELSE timing >>
        /\ old_time' = << IF starts THEN Some(now) ELSE old_time[1] >>
        /\ \E obs \in {ObsFrame(t1, << counts >>, IF counts THEN 1 ELSE 0,
                                 IF counts THEN 1 ELSE 0)} :
           \E key \in ScriptKeys :
              /\ pc' = ScriptAfterKey(key)
              /\ session_obs' = ObsStop(obs)

\* any_straight_leg_raise.py:174-214, any_prone_straight_leg_raise.py:168-207
\* on the tracker t1 that updateTracker left; lying is the loop's own
\* lying_down / prone_lying_down.  resetTracker leaves the same tracker
\* reset_t1 whichever side calls it, and after the left side's call the
\* right side's flags are false.
TwoSidedPoseFrame(t1, reset_t1, lying) ==
    LET l_timing == StillTiming(t1.l_resting_pose, t1.l_raise_pose, check_timer[1])
        r_timing == StillTiming(t1.r_resting_pose, t1.r_raise_pose, check_timer[2])
        l_both == lying /\ t1.l_resting_pose /\ t1.l_raise_pose
        l_starts == l_both /\ ~l_timing
        l_counts == l_both /\ l_timing /\ HoldElapsed(now, old_time[1])
        r_both == ~l_counts /\ lying /\ t1.r_resting_pose /\ t1.r_raise_pose
        r_starts == r_both /\ ~r_timing
        r_counts == r_both /\ r_timing /\ HoldElapsed(now, old_time[2])
        n == IF l_counts \/ r_counts THEN 1 ELSE 0
    IN  /\ count' = count + n
        /\ pose_tracker' = IF n = 1 THEN reset_t1 ELSE t1
        /\ check_timer' = << IF l_starts THEN TRUE ELSE IF l_counts THEN FALSE ELSE l_timing,
                             IF r_starts THEN TRUE ELSE IF r_counts THEN FALSE ELSE r_timing >>
        /\ old_time' = << IF l_starts THEN Some(now) ELSE old_time[1],
                          IF r_starts THEN Some(now) ELSE old_time[2] >>
        /\ \E obs \in {ObsFrame(t1, << l_counts, r_counts >>, n, n)} :
           \E key \in ScriptKeys :
              /\ pc' = ScriptAfterKey(key)
              /\ session_obs' = ObsStop(obs)

\* The loops are followed on a part of the frames; the trackers are followed
\* on all of them in TrackerSpec.
BridgingLoopFrames ==
    {f \in BridgingFrames : /\ f.l_knee_angle = f.r_knee_angle
                            /\ f.l_ankle_close = f.r_ankle_close}

CobraLoopFrames ==
    {f \in CobraFrames : /\ f.angle_left_elb = f.angle_right_elb
                         /\ f.wrist_close = f.wrist_near_torse}

SlrLoopFrames ==
    {f \in SlrFrames : /\ ~f.side_lying
                       /\ f.l_knee_angle = slr_knee_angle_min
                       /\ f.r_knee_angle = slr_knee_angle_min
                       /\ f.l_ankle_close = f.r_ankle_close
                       /\ (f.l_raise_angle < 0 => ~f.lknee_high)
                       /\ (f.r_raise_angle < 0 => ~f.rknee_high)}

ProneLoopFrames ==
    {f \in ProneFrames : /\ f.l_knee_angle = prone_knee_angle_min
                         /\ f.r_knee_angle = prone_knee_angle_min
                         /\ f.l_ankle_close = f.r_ankle_close
                         /\ f.l_raise_angle # 150 /\ f.r_raise_angle # 150
                         /\ (f.l_raise_angle = 160 => ~f.lknee_high)
                         /\ (f.r_raise_angle = 160 => ~f.rknee_high)}

HeelLoopFrames == {f \in HeelFrames : f.l.leg_length > 0 /\ f.r.leg_length > 0}

BridgingLoop ==
    /\ unit = "bridging.py" /\ pc = "loop"
    /\ \/ \E kind \in {"eof", "no_frame", "no_pose"} : ScriptNoPose(kind)
       \/ \E f \in BridgingLoopFrames :
             \E t1 \in {BridgingUpdateTracker(pose_tracker, f)} :
                ScriptPoseFrame(t1, BridgingResetTracker(t1))
    /\ UNCHANGED timer_vars /\ SessionFrame /\ NoSmoother

CobraLoop ==
    /\ unit = "cobra_stretch.py" /\ pc = "loop"
    /\ \/ \E kind \in {"eof", "no_frame", "no_pose"} : ScriptNoPose(kind)
       \/ \E f \in CobraLoopFrames :
             \E t1 \in {CobraUpdateTracker(pose_tracker, f)} :
                ScriptPoseFrame(t1, CobraResetTracker(t1))
    /\ UNCHANGED timer_vars /\ SessionFrame /\ NoSmoother

AnkleToeLoop ==
    /\ unit = "ankle_toe_movement.py" /\ pc = "loop"
    /\ \/ \E kind \in {"eof", "no_frame", "no_pose"} : ScriptNoPose(kind)
       \/ \E f \in AnkleToeFrames :
             \E t1 \in {AnkleToeUpdateTracker(pose_tracker, f)} :
                ScriptPoseFrame(t1, AnkleToeResetTracker(t1))
    /\ UNCHANGED timer_vars /\ SessionFrame /\ NoSmoother

SlrLoop ==
    /\ unit = "any_straight_leg_raise.py" /\ pc = "loop"
    /\ \/ \E kind \in {"eof", "no_frame", "no_pose"} : ScriptNoPose(kind)
       \/ \E f \in SlrLoopFrames :
             \E t1 \in {SlrUpdateTracker(pose_tracker, f)} :
                TwoSidedPoseFrame(t1, SlrResetTracker(t1), f.lying_down)
    /\ UNCHANGED timer_vars /\ SessionFrame /\ NoSmoother

ProneLoop ==
    /\ unit = "any_prone_straight_leg_raise.py" /\ pc = "loop"
    /\ \/ \E kind \in {"eof", "no_frame", "no_pose"} : ScriptNoPose(kind)
       \/ \E f \in ProneLoopFrames :
             \E t1 \in {ProneUpdateTracker(pose_tracker, f)} :
                TwoSidedPoseFrame(t1, ProneResetTracker(t1), f.prone_lying_down)
    /\ UNCHANGED timer_vars /\ SessionFrame /\ NoSmoother

\* ---- the loops of the classes' process_video
\* cv2.waitKey after the frame, and what pause_loop() returns
ClassKeys == {"none", "q", "p then resume", "p then quit"}

\* `if self.reps and self.count >= self.reps: break` and the keys, under
\* `if display:` (shoulder_blade_squeeze.py:149-158, sbs2.py:117-126,
\* heel_slides.py:278-298); c is the count after the frame
ClassAfterFrame(c, key) ==
    IF display /\ ((reps # 0 /\ c >= reps) \/ key \in {"q", "p then quit"})
    THEN "done" ELSE "loop"

\* ClassNoPose taking the end of the stream for an empty frame
ClassNoPose_Continue(kind) ==
    /\ pc' = "loop"
    /\ session_obs' = ObsSkipped(kind)
    /\ UNCHANGED << count, check_timer, old_time, pose_tracker >>

\* `if not success: break`, `if frame is None: continue`,
\* `if not pose_landmarks: continue`
ClassNoPose(kind) ==
    /\ pc' = IF kind = "eof" THEN "done" ELSE "loop"
    /\ session_obs' = ObsSkipped(kind)
    /\ UNCHANGED << count, check_timer, old_time, pose_tracker >>

\* shoulder_blade_squeeze.py; distances in tenths, the ratio in hundredths
SbsShoulderDists == {8, 9, 11, 12}
SbsHipDists == {0, 10}
SbsSessionFrames ==
    [lying_down : BOOLEAN, landmarks_visible : BOOLEAN,
     shoulder_dist : SbsShoulderDists, hip_dist : SbsHipDists]

\* shoulder_blade_squeeze.py:112-118
SbsShoulderHipRatio(f) ==
    IF f.landmarks_visible /\ f.hip_dist > 0
    THEN (f.shoulder_dist * 100) \div f.hip_dist
    ELSE 0

\* shoulder_blade_squeeze.py:118, the `else 0` of the ratio is taken
SbsDegenerate(f) == f.landmarks_visible /\ f.hip_dist = 0

\* shoulder_blade_squeeze.py:120-123
SbsTracked(t, f) ==
    IF ~f.lying_down /\ f.landmarks_visible
    THEN SbsUpdate(t, [shoulder_hip_ratio |-> SbsShoulderHipRatio(f)])
    ELSE SbsReset(t)

\* The phase of the present repetition after a processed frame f that left
\* the tracker t1 before the timer was called (history):
\*   "idle"      the tracker is idle: it is new, or the hold ended and the
\*               tracker was reset, or the frame itself reset it
\*   "rested"    since then a frame with shoulder_hip_ratio above
\*               rest_threshold has set resting_pose
\*   "timing"    since then the timer has started to time a squeeze
\*   "counted"   the squeeze so timed has been counted
\*   "untimely"  the timer started, or the count rose, out of this order
SbsPhase(f, t1) ==
    LET p == session_obs.phase
        updated == ~f.lying_down /\ f.landmarks_visible
        after == IF timer_status'.needs_reset THEN SbsReset(t1) ELSE t1
        idle_after == ~after.resting_pose /\ ~after.squeeze_pose
        starts == rep_in_progress' /\ ~rep_in_progress
        rests == /\ updated /\ SbsShoulderHipRatio(f) > rest_threshold
                 /\ after.resting_pose
    IN  IF p = "untimely" THEN p
        ELSE IF timer_status'.newly_counted_rep
             THEN (IF p = "timing" THEN "counted" ELSE "untimely")
        ELSE IF starts THEN (IF p = "rested" THEN "timing" ELSE "untimely")
        ELSE IF (timer_status'.needs_reset \/ ~updated) /\ idle_after THEN "idle"
        ELSE IF rests /\ p = "idle" THEN "rested"
        ELSE p

\* shoulder_blade_squeeze.py:95-158
SbsLoop ==
    /\ unit = "ShoulderBladeSqueezeTracker" /\ pc = "loop"
    /\ \/ /\ \E kind \in {"eof", "no_frame", "no_pose"} : ClassNoPose(kind)
          /\ UNCHANGED timer_vars
       \/ \E f \in SbsSessionFrames :
             \E t1 \in {SbsTracked(pose_tracker, f)} :
             LET first_reset == IF ~f.lying_down /\ f.landmarks_visible THEN 0 ELSE 1
             IN  /\ TimerUpdate(t1.squeeze_pose)
                 /\ count' = IF timer_status'.newly_counted_rep THEN count + 1 ELSE count
                 /\ pose_tracker' = IF timer_status'.needs_reset THEN SbsReset(t1) ELSE t1
                 /\ \E obs \in {ObsFrame(t1, << timer_status'.newly_counted_rep >>,
                                first_reset + (IF timer_status'.needs_reset THEN 1 ELSE 0),
                                IF timer_status'.newly_counted_rep THEN 1 ELSE 0)} :
                    \E key \in ClassKeys :
                       /\ pc' = ClassAfterFrame(count', key)
                       /\ session_obs' = [ObsStop(obs) EXCEPT
                                            !.degenerate = SbsDegenerate(f),
                                            !.phase = SbsPhase(f, t1)]
                 /\ UNCHANGED << check_timer, old_time >>
    /\ SessionFrame /\ NoSmoother

\* sbs2.py:77-126
Sbs2Loop ==
    /\ unit = "ShoulderBladeSqueezeTracker2" /\ pc = "loop"
    /\ count < MaxCount
    /\ \/ \E kind \in {"eof", "no_frame", "no_pose"} : ClassNoPose(kind)
       \/ \E f \in Sbs2Frames :
             \E t1 \in {Sbs2UpdateTracker(pose_tracker, f)} :
                 /\ count' = IF t1.squeezed THEN count + 1 ELSE count
                 /\ pose_tracker' = IF t1.squeezed THEN Sbs2ResetTracker(t1) ELSE t1
                 /\ \E obs \in {ObsFrame(t1, << t1.squeezed >>, IF t1.squeezed THEN 1 ELSE 0, 0)} :
                    \E key \in ClassKeys :
                       /\ pc' = ClassAfterFrame(count', key)
                       /\ session_obs' = ObsStop(obs)
                 /\ UNCHANGED << check_timer, old_time >>
    /\ UNCHANGED timer_vars /\ SessionFrame /\ NoSmoother

\* heel_slides.py:230-298; "no_landmarks" is the frame on which the
\* smoother returns nothing (lines 237-242)
\* heel_slides.py:191, the default of TEMPORAL_FILTER_SIZE
buffer_size == 5

\* update_landmarks appending on a frame without landmarks too
update_landmarks_Always(history, has_landmarks) ==
    IF history < buffer_size THEN history + 1 ELSE history

\* heel_slides.py:24-51, LandmarkSmoother.update_landmarks: the number of
\* samples each landmark's deque(maxlen=buffer_size) holds after the call;
\* `if landmarks is None: return None` comes before any append
update_landmarks(history, has_landmarks) ==
    IF ~has_landmarks THEN history
    ELSE IF history < buffer_size THEN history + 1 ELSE history

HeelLoop ==
    /\ unit = "HeelSlidesTracker" /\ pc = "loop"
    /\ \/ \E kind \in {"eof", "no_frame"} :
             ClassNoPose(kind) /\ UNCHANGED landmark_history
       \/ \E q \in BOOLEAN :
             /\ landmark_history' = update_landmarks(landmark_history, FALSE)
             /\ pc' = IF display /\ q THEN "done" ELSE "loop"
             /\ session_obs' = ObsStop(ObsSkipped("no_landmarks"))
             /\ UNCHANGED << count, check_timer, old_time, pose_tracker >>
       \/ \E f \in HeelLoopFrames :
             \E t1 \in {HeelUpdate(pose_tracker, f, now)} :
                /\ t1.l.extended_count <= MaxConsecutive
                /\ t1.r.extended_count <= MaxConsecutive
                /\ landmark_history' = update_landmarks(landmark_history, TRUE)
                /\ LET l == t1.l.cycle_completed
                       t2 == IF l THEN HeelResetLeftTracker(t1) ELSE t1
                       r == t2.r.cycle_completed
                       n == (IF l THEN 1 ELSE 0) + (IF r THEN 1 ELSE 0)
                   IN  /\ count' = count + n
                       /\ pose_tracker' = IF r THEN HeelResetRightTracker(t2) ELSE t2
                       /\ \E obs \in {ObsFrame(t1, << l, r >>, n, n)} :
                          \E key \in ClassKeys :
                             /\ pc' = ClassAfterFrame(count', key)
                             /\ session_obs' = ObsStop(obs)
                       /\ UNCHANGED << check_timer, old_time >>
    /\ UNCHANGED timer_vars /\ SessionFrame

\* what follows the loop: cap.release() and print(f"Final count: {count}")
\* (bridging.py:237-241), or self._cleanup() and `return self.count`
\* (shoulder_blade_squeeze.py:160-161 and 190-196, heel_slides.py:300-301)
Cleanup ==
    /\ pc = "done"
    /\ pc' = "returned"
    /\ cap' = "released"
    /\ final_count' = Some(count)
    /\ UNCHANGED << unit, lenient_mode, now, timer_vars, tracker_vars, count,
                    check_timer, old_time, HOLD_SECS, display, reps, session_obs,
                    landmark_history, app_vars >>

\* HOLD_SECS of the configuration, in ticks
HoldTicks == {1, 2}

SessionSpecInit ==
    /\ unit \in SessionUnits
    /\ lenient_mode \in (IF unit \in ScriptUnits THEN BOOLEAN ELSE {FALSE})
    /\ now = 0
    /\ HOLD_SECS \in (CASE unit = "ShoulderBladeSqueezeTracker2" -> {0}
                        [] unit \in {"HeelSlidesTracker", "any_straight_leg_raise.py",
                                     "any_prone_straight_leg_raise.py"} -> {Scale}
                        [] OTHER -> {h * Scale : h \in HoldTicks})
    /\ TimerInit(IF unit = "ShoulderBladeSqueezeTracker" THEN HOLD_SECS ELSE 0)
    /\ pose_tracker = NewTracker(Kind, now)
    /\ tracker_obs = NewObs
    /\ count = 0
    /\ pc = "loop"
    /\ check_timer = NoSide
    /\ old_time = [i \in SessionSides |-> None]
    /\ display \in (IF unit \in ScriptUnits THEN {TRUE} ELSE BOOLEAN)
    /\ reps \in (CASE unit \in ScriptUnits -> {0}
                   [] unit = "HeelSlidesTracker" -> (IF display THEN {2} ELSE {0})
                   [] OTHER -> {0, 2})
    /\ session_obs = NewSessionObs
    /\ landmark_history = 0
    /\ cap = "open"
    /\ final_count = None
    /\ NoApp

SessionNext ==
    \/ Tick
    \/ BridgingLoop
    \/ CobraLoop
    \/ AnkleToeLoop
    \/ SlrLoop
    \/ ProneLoop
    \/ SbsLoop
    \/ Sbs2Loop
    \/ HeelLoop
    \/ Cleanup

SessionSpec == SessionSpecInit /\ [][SessionNext]_vars

\* ------------------------------------- FactorySpec: tracker.py, create_tracker
\* the trackers one run makes
MaxCreated == 3

\* tracker.py:7-13, the dict _TRACKERS: name |-> class
TRACKERS ==
    [name \in {"ankle_toe_movement", "cobra_stretch", "bridging", "any_slr",
               "any_prone_slr"} |->
        CASE name = "ankle_toe_movement" -> "AnkleToeMovementTracker"
          [] name = "cobra_stretch" -> "CobraStretchTracker"
          [] name = "bridging" -> "BridgingTracker"
          [] name = "any_slr" -> "AnySLRTracker"
          [] name = "any_prone_slr" -> "AnyProneSLRTracker"]

\* the names callers pass: the registered ones, modules that have no entry,
\* a class name, another case, the empty string
ExerciseNames ==
    DOMAIN TRACKERS \cup {"heel_slides", "shoulder_blade_squeeze", "BridgingTracker",
                          "Bridging", ""}

\* _TRACKERS.get(exercise_name), tracker.py:31
TrackersGet(exercise_name) ==
    IF exercise_name \in DOMAIN TRACKERS THEN Some(TRACKERS[exercise_name]) ELSE None

\* create_tracker falling back to a tracker for a name it does not know
create_tracker_Fallback(exercise_name) ==
    LET tracker_class == TrackersGet(exercise_name)
    IN  IF tracker_class # None
        THEN [returned |-> tracker_class, raised |-> None]
        ELSE [returned |-> Some("BridgingTracker"), raised |-> None]

\* tracker.py:16-35: the class of the instance returned, or the exception
create_tracker(exercise_name) ==
    LET tracker_class == TrackersGet(exercise_name)
    IN  IF tracker_class # None
        THEN [returned |-> tracker_class, raised |-> None]
        ELSE [returned |-> None, raised |-> Some("ValueError")]

\* a call of create_tracker; `created` lists the classes instantiated
CallCreateTracker ==
    /\ unit = "tracker.py"
    /\ Len(factory.created) < MaxCreated
    /\ \E exercise_name \in ExerciseNames :
          \E r \in {create_tracker(exercise_name)} :
             factory' = [exercise_name |-> Some(exercise_name),
                         returned |-> r.returned, raised |-> r.raised,
                         created |-> IF r.returned # None
                                     THEN Append(factory.created, Val(r.returned))
                                     ELSE factory.created]
    /\ UNCHANGED << unit, lenient_mode, now, timer_vars, tracker_vars, session_vars,
                    config, mixer, twin, smoother >>

FactorySpecInit ==
    /\ unit = "tracker.py"
    /\ lenient_mode = FALSE
    /\ now = 0
    /\ TimerInit(0)
    /\ pose_tracker = None
    /\ tracker_obs = None
    /\ NoSession
    /\ factory = [exercise_name |-> None, returned |-> None, raised |-> None,
                  created |-> << >>]
    /\ config = None
    /\ mixer = None
    /\ twin = None
    /\ smoother = None

FactoryNext == CallCreateTracker

FactorySpec == FactorySpecInit /\ [][FactoryNext]_vars

\* ------------------------------------ ConfigSpec: reading the threshold file
\* the frames one run reads after the file
MaxFrames == 4

\* the threshold file as the program finds it: absent, of length 0, not JSON,
\* a JSON object with every key but 'multiplyer', one whose 'multiplyer' is
\* 0, one with every key set
FileStates ==
    {"missing", "empty", "malformed", "no_multiplyer", "zero_multiplyer", "complete"}

ConfigUnits ==
    {"HeelSlidesTracker", "ShoulderBladeSqueezeTracker", "any_straight_leg_raise.py"}

\* open(path), conf.read() and json.loads (heel_slides.py:206-209,
\* any_straight_leg_raise.py:32-35): the object read, or the exception
ReadJson(file) ==
    CASE file = "missing" -> [data |-> None, raised |-> Some("FileNotFoundError")]
      [] file = "empty" -> [data |-> None, raised |-> None]
      [] file = "malformed" -> [data |-> None, raised |-> Some("JSONDecodeError")]
      [] OTHER -> [data |-> Some(file), raised |-> None]

\* HeelSlidesTracker._load_config with the config.get(key, default) of the
\* constructors (heel_slides.py:76-81, 190-191, 205-212;
\* shoulder_blade_squeeze.py:22-23, 54, 68-75): only FileNotFoundError is
\* caught
load_config(file) ==
    LET r == ReadJson(file)
    IN  IF r.raised # None /\ r.raised # Some("FileNotFoundError")
        THEN [thresholds |-> "none", multiplyer |-> "unused", raised |-> r.raised]
        ELSE [thresholds |-> IF r.data = None THEN "defaults" ELSE "file",
              multiplyer |-> "unused", raised |-> None]

\* any_straight_leg_raise.py:30-62 at import: the defaults of lines 39-45,
\* then one `if jconfig and jconfig[key]` per key; multiplyer has no default
SlrLoadConfig(file) ==
    LET r == ReadJson(file)
    IN  IF r.raised # None /\ r.raised # Some("FileNotFoundError")
        THEN [thresholds |-> "none", multiplyer |-> "undefined", raised |-> r.raised]
        ELSE IF r.data = None
        THEN [thresholds |-> "defaults", multiplyer |-> "undefined", raised |-> None]
        ELSE IF file = "no_multiplyer"
        THEN [thresholds |-> "file", multiplyer |-> "undefined",
              raised |-> Some("KeyError")]
        ELSE [thresholds |-> "file",
              multiplyer |-> IF file = "zero_multiplyer" THEN "undefined" ELSE "file",
              raised |-> None]

\* the constructor, or the script's import, reads the file
LoadConfig ==
    /\ unit \in ConfigUnits
    /\ config.pc = "start"
    /\ \E r \in {IF unit = "any_straight_leg_raise.py"
                  THEN SlrLoadConfig(config.file) ELSE load_config(config.file)} :
          config' = [config EXCEPT !.pc = IF r.raised = None THEN "loop" ELSE "raised",
                                   !.thresholds = r.thresholds,
                                   !.multiplyer = r.multiplyer,
                                   !.raised = r.raised]
    /\ UNCHANGED << unit, lenient_mode, now, timer_vars, tracker_vars, session_vars,
                    factory, mixer, twin, smoother >>

\* one frame of the loop: a frame with a pose reads the thresholds, and in
\* any_straight_leg_raise.py:169 it reads multiplyer
ConfigFrame ==
    /\ unit \in ConfigUnits
    /\ config.pc = "loop"
    /\ config.frames < MaxFrames
    /\ \E kind \in {"no_pose", "pose"} :
          LET fails == /\ kind = "pose"
                       /\ unit = "any_straight_leg_raise.py"
                       /\ config.multiplyer = "undefined"
          IN  config' = [config EXCEPT !.frames = @ + 1,
                                       !.last = kind,
                                       !.pc = IF fails THEN "raised" ELSE "loop",
                                       !.raised = IF fails THEN Some("NameError") ELSE None]
    /\ UNCHANGED << unit, lenient_mode, now, timer_vars, tracker_vars, session_vars,
                    factory, mixer, twin, smoother >>

ConfigSpecInit ==
    /\ unit \in ConfigUnits
    /\ lenient_mode = FALSE
    /\ now = 0
    /\ TimerInit(0)
    /\ pose_tracker = None
    /\ tracker_obs = None
    /\ NoSession
    /\ factory = None
    /\ \E file \in FileStates :
          config = [file |-> file, pc |-> "start", thresholds |-> "none",
                    multiplyer |-> "unused", raised |-> None, frames |-> 0,
                    last |-> "none"]
    /\ mixer = None
    /\ twin = None
    /\ smoother = None

ConfigNext ==
    \/ LoadConfig
    \/ ConfigFrame

ConfigSpec == ConfigSpecInit /\ [][ConfigNext]_vars

\* ------------------------------- AudioSpec: lib/sound_utils.py, SoundManager
\* the sounds one run asks for
MaxThreads == 2

\* Counts are announced up to MaxAnnounced.
MaxAnnounced == 20

\* the counts announced: announceForCount follows an increment of the count
AnnouncedCounts == 1..MaxAnnounced

\* --sound_language (modern_flags.py:70-72)
Languages == {"english", "indian"}

\* play_count_sound testing the multiple of 5 before the multiple of 10
CountEvent_FiveFirst(c) ==
    IF c % 5 = 0 /\ c > 0 THEN "milestone_5"
    ELSE IF c % 10 = 0 /\ c > 0 THEN "milestone_10"
    ELSE "count"

\* SoundManager.play_count_sound, sound_utils.py:197-202: the SoundEvent
\* chosen for a count
CountEvent(c) ==
    IF c % 10 = 0 /\ c > 0 THEN "milestone_10"
    ELSE IF c % 5 = 0 /\ c > 0 THEN "milestone_5"
    ELSE "count"

\* common_sounds of SoundManager._create_sound_mapping, sound_utils.py:99-120
CommonSound(language, event) ==
    CASE event = "count" -> "short-sample.wav"
      [] event = "milestone_10" -> "set-complete.wav"
      [] event = "milestone_5" ->
            IF language = "english" THEN "FiveRepeatsCompleted.wav"
            ELSE "Indian-FiveRepeatsCompleted.wav"

\* SoundManager.play_count_sound and _play_common_sound, sound_utils.py:188-203
\* and 227-233: the file played for a count
CountSound(c) == CommonSound(mixer.language, CountEvent(c))

\* announceForCount(count) -> play_count_sound -> _play_common_sound ->
\* play_sound (file_utils.py:50-57, sound_utils.py:152-160): a daemon thread
\* is started for the sound, whatever the mixer is doing; nothing is chosen
\* when the manager is not enabled (sound_utils.py:194-195).  count and
\* selected record the last count announced and the events chosen for it.
PlayCountSound ==
    /\ unit = "sound_utils.py"
    /\ Len(mixer.threads) < MaxThreads
    /\ \E c \in AnnouncedCounts :
          mixer' = IF mixer.enabled
                   THEN [mixer EXCEPT
                           !.threads = Append(@, [pc |-> "load",
                                                  sound_path |-> CountSound(c)]),
                           !.count = Some(c),
                           !.selected = << CountEvent(c) >>]
                   ELSE [mixer EXCEPT !.count = Some(c), !.selected = << >>]
    /\ UNCHANGED << unit, lenient_mode, now, timer_vars, tracker_vars, session_vars,
                    factory, config, twin, smoother >>

AudioFrame ==
    UNCHANGED << unit, lenient_mode, now, timer_vars, tracker_vars, session_vars,
                 factory, config, twin, smoother >>

\* _play_sound_thread, sound_utils.py:143-144: pygame.mixer.init() and
\* pygame.mixer.music.load(sound_path); loading stops the music that plays
ThreadLoad ==
    /\ unit = "sound_utils.py"
    /\ \E i \in 1..Len(mixer.threads) :
          /\ mixer.threads[i].pc = "load"
          /\ mixer' = [mixer EXCEPT !.threads[i].pc = "play",
                                    !.loaded = Some(mixer.threads[i].sound_path),
                                    !.playing = None]
    /\ AudioFrame

\* sound_utils.py:145: pygame.mixer.music.play() starts what is loaded
ThreadPlay ==
    /\ unit = "sound_utils.py"
    /\ \E i \in 1..Len(mixer.threads) :
          /\ mixer.threads[i].pc = "play"
          /\ mixer' = [mixer EXCEPT !.threads[i].pc = "wait",
                                    !.playing = mixer.loaded]
    /\ AudioFrame

\* sound_utils.py:146-147: the thread ends when get_busy() is false
ThreadWait ==
    /\ unit = "sound_utils.py"
    /\ mixer.playing = None
    /\ \E i \in 1..Len(mixer.threads) :
          /\ mixer.threads[i].pc = "wait"
          /\ mixer' = [mixer EXCEPT !.threads[i].pc = "done"]
    /\ AudioFrame

\* the music that plays comes to its end
MusicEnds ==
    /\ unit = "sound_utils.py"
    /\ mixer.playing # None
    /\ mixer' = [mixer EXCEPT !.playing = None]
    /\ AudioFrame

AudioSpecInit ==
    /\ unit = "sound_utils.py"
    /\ lenient_mode = FALSE
    /\ now = 0
    /\ TimerInit(0)
    /\ pose_tracker = None
    /\ tracker_obs = None
    /\ NoSession
    /\ factory = None
    /\ config = None
    /\ \E enabled \in BOOLEAN : \E language \in Languages :
          mixer = [threads |-> << >>, loaded |-> None, playing |-> None,
                   enabled |-> enabled, language |-> language,
                   count |-> None, selected |-> << >>]
    /\ twin = None
    /\ smoother = None

AudioNext ==
    \/ PlayCountSound
    \/ ThreadLoad
    \/ ThreadPlay
    \/ ThreadWait
    \/ MusicEnds

AudioSpec == AudioSpecInit /\ [][AudioNext]_vars

\* ------------- LenientSpec: two straight-leg-raise trackers on twin frames
TwoSidedUnits == {"any_straight_leg_raise", "any_prone_straight_leg_raise"}

\* the values the other leg's arguments of updateTracker take in the two
\* runs: the knee on both sides of knee_angle_min, the ankle near the ground
\* or not, a raise angle of the resting range and one of the raise range
LegInputs ==
    [knee_angle : IF unit = "any_straight_leg_raise"
                  THEN SlrKneeAngles ELSE ProneKneeAngles,
     ankle_close : BOOLEAN,
     raise_angle : IF unit = "any_straight_leg_raise" THEN {-170, 100} ELSE {160, 100},
     knee_high : {TRUE}]

\* the frames of the first run: this side's arguments and the shared ones
\* take every value of the unit's frames
TwinFrames ==
    {f \in (IF unit = "any_straight_leg_raise" THEN SlrFrames ELSE ProneFrames) :
        Leg(f, Other(twin.side)) \in LegInputs}

\* frame f with the arguments of the leg opposite to `side` replaced by o
WithOtherLeg(f, side, o) ==
    IF side = "l"
    THEN [f EXCEPT !.r_knee_angle = o.knee_angle, !.r_ankle_close = o.ankle_close,
                   !.r_raise_angle = o.raise_angle, !.rknee_high = o.knee_high]
    ELSE [f EXCEPT !.l_knee_angle = o.knee_angle, !.l_ankle_close = o.ankle_close,
                   !.l_raise_angle = o.raise_angle, !.lknee_high = o.knee_high]

\* updateTracker of the unit's PoseTracker
TwoSidedUpdate(t, f) ==
    IF unit = "any_straight_leg_raise"
    THEN SlrUpdateTracker(t, f) ELSE ProneUpdateTracker(t, f)

\* resetTracker of the unit's PoseTracker
TwoSidedReset(t) ==
    IF unit = "any_straight_leg_raise"
    THEN SlrResetTracker(t) ELSE ProneResetTracker(t)

\* the flags of one side
SideFlags(t, side) ==
    IF side = "l" THEN << t.l_resting_pose, t.l_raise_pose >>
    ELSE << t.r_resting_pose, t.r_raise_pose >>

\* both trackers are updated, on frames that agree but for the leg opposite
\* to twin.side
TwinUpdate ==
    /\ unit \in TwoSidedUnits
    /\ \E f \in TwinFrames :
          \E t1 \in {TwoSidedUpdate(pose_tracker, f)} :
             \E o \in LegInputs :
                /\ pose_tracker' = t1
                /\ twin' = [twin EXCEPT
                               !.tracker = TwoSidedUpdate(@, WithOtherLeg(f, twin.side, o))]
    /\ UNCHANGED << unit, lenient_mode, now, timer_vars, tracker_obs, session_vars,
                    factory, config, mixer, smoother >>

\* both trackers are reset
TwinReset ==
    /\ unit \in TwoSidedUnits
    /\ pose_tracker' = TwoSidedReset(pose_tracker)
    /\ twin' = [twin EXCEPT !.tracker = TwoSidedReset(@)]
    /\ UNCHANGED << unit, lenient_mode, now, timer_vars, tracker_obs, session_vars,
                    factory, config, mixer, smoother >>

LenientSpecInit ==
    /\ unit \in TwoSidedUnits
    /\ lenient_mode \in BOOLEAN
    /\ now = 0
    /\ TimerInit(0)
    /\ pose_tracker = TwoSidedNew
    /\ tracker_obs = None
    /\ NoSession
    /\ factory = None
    /\ config = None
    /\ mixer = None
    /\ smoother = None
    /\ \E side \in {"l", "r"} :
          twin = [tracker |-> TwoSidedNew, side |-> side]

LenientNext ==
    \/ TwinUpdate
    \/ TwinReset

LenientSpec == LenientSpecInit /\ [][LenientNext]_vars

\* -------------------------- SmootherSpec: the two LandmarkSmoother classes
\* heel_slides.py:18-51 keeps a window of the last buffer_size samples of
\* every landmark and returns their mean; lib/landmark_smoother.py:4-36 keeps
\* the last smoothed list and blends each new one into it with alpha = 0.5.
\* Either is followed under any sequence of calls, with None or with a list
\* of landmarks as the argument.

\* Frames given to a smoother are counted up to MaxCalls.
MaxCalls == 6

\* Coordinates are kept in units of 1 / One, so that the mean of up to five
\* samples and MaxCalls halvings of a sample are whole numbers of units.
One == 60 * (2 ^ MaxCalls)

SmootherUnits ==
    {"heel_slides.LandmarkSmoother", "lib.landmark_smoother.LandmarkSmoother"}

\* the positions in the landmark list (Python's 0 and 1)
LandmarkIndices == {1, 2}

Landmark(x, y, z, v) == [x |-> x, y |-> y, z |-> z, visibility |-> v]

\* what the pose estimator may report at a position of the list
LandmarkAt(i) ==
    IF i = 1 THEN {Landmark(0, One, 0, One), Landmark(One, 0, One, 0)}
    ELSE {Landmark(One, One, 0, 0), Landmark(0, 0, One, One)}

SmootherFrames == {f \in [LandmarkIndices -> UNION {LandmarkAt(i) : i \in LandmarkIndices}] :
                      \A i \in LandmarkIndices : f[i] \in LandmarkAt(i)}

\* TEMPORAL_FILTER_SIZE of the configuration, 5 when it is absent
BufferSizes == {1, 2, buffer_size}

RECURSIVE SumOf(_, _)
\* sum(item[k] for item in history), heel_slides.py:36-39
SumOf(q, k) == IF q = << >> THEN 0 ELSE Head(q)[k] + SumOf(Tail(q), k)

\* collections.deque(maxlen=n).append keeping the oldest sample when full
DequeAppend_DropNewest(q, e, n) ==
    IF Len(q) < n THEN Append(q, e) ELSE q

\* collections.deque(maxlen=n).append(e), heel_slides.py:31-33: a full deque
\* discards the item at its other end
DequeAppend(q, e, n) ==
    IF Len(q) < n THEN Append(q, e) ELSE Append(Tail(q), e)

\* the tuple appended for a landmark, heel_slides.py:33
Sample(l) == << l.x, l.y, l.z, l.visibility >>

\* a mean over a window one longer than the deque
Mean_OnePast(q) ==
    Landmark(SumOf(q, 1) \div (Len(q) + 1), SumOf(q, 2) \div (Len(q) + 1),
             SumOf(q, 3) \div (Len(q) + 1), SumOf(q, 4) \div (Len(q) + 1))

\* avg_x, avg_y, avg_z, avg_v of heel_slides.py:36-45
Mean(q) ==
    Landmark(SumOf(q, 1) \div Len(q), SumOf(q, 2) \div Len(q),
             SumOf(q, 3) \div Len(q), SumOf(q, 4) \div Len(q))

\* the history of a landmark, empty when `i not in self.landmark_history`
HistoryOf(h, i) == IF i \in DOMAIN h THEN h[i] ELSE << >>

\* a cold start that returns a zero-filled landmark
Smoothed_ZeroFilled(q, l) ==
    IF Len(q) > 1 THEN Mean(q) ELSE Landmark(0, 0, 0, 0)

\* heel_slides.py:35-47: the mean when the deque holds more than one sample,
\* the landmark itself otherwise
Smoothed(q, l) == IF Len(q) > 1 THEN Mean(q) ELSE l

\* LandmarkSmoother.update_landmarks of heel_slides.py:24-51 on the object s:
\* the fields it leaves and what it returns
UpdateLandmarks(s, landmarks) ==
    IF landmarks = None
    THEN [landmark_history |-> s.landmark_history, returned |-> None]
    ELSE LET f == Val(landmarks)
             h == [i \in DOMAIN f |->
                      DequeAppend(HistoryOf(s.landmark_history, i), Sample(f[i]),
                                  s.buffer_size)]
         IN  [landmark_history |-> h,
              returned |-> Some([i \in DOMAIN f |-> Smoothed(h[i], f[i])])]

\* alpha * new + (1 - alpha) * previous, alpha = 0.5
\* (landmark_smoother.py:5 and 21-23)
Blend(new, prev) == (new + prev) \div 2

\* landmark_smoother.py:21-25: NormalizedLandmark(x=, y=, z=) is built
\* without a visibility, which then reads as 0.0
Blended(l, prev) ==
    Landmark(Blend(l.x, prev.x), Blend(l.y, prev.y), Blend(l.z, prev.z), 0)

\* LandmarkSmoother.__call__ of lib/landmark_smoother.py:9-36 on the object s
SmootherCall(s, landmarks) ==
    IF landmarks = None
    THEN [smoothed_landmarks |-> s.smoothed_landmarks, returned |-> None]
    ELSE IF s.smoothed_landmarks = None
    THEN [smoothed_landmarks |-> landmarks, returned |-> landmarks]
    ELSE LET f == Val(landmarks)
             prev == Val(s.smoothed_landmarks)
             new == [i \in DOMAIN f |-> Blended(f[i], prev[i])]
         IN  [smoothed_landmarks |-> Some(new), returned |-> Some(new)]

\* The object and its last call.  Fields of the object: buffer_size and
\* landmark_history (heel_slides.py), smoothed_landmarks (lib).  History:
\*   given       the argument of the last call, None for None
\*   returned    what the last call returned
\*   calls       the number of calls with a list of landmarks
\*   was_cold    the last call found no history
\*   before      the landmark_history / smoothed_landmarks the last call found
\*   const_run   the number of latest calls with a list that all gave the
\*               same list
\*   last        the list given by the latest call with a list
\*   smoothed_visibility
\*               (lib) per landmark, the visibilities given so far, blended
\*               as landmark_smoother.py:21-23 blends x, y and z
NewSmoother(n) ==
    [buffer_size |-> n, landmark_history |-> << >>, smoothed_landmarks |-> None,
     given |-> None, returned |-> None, calls |-> 0, was_cold |-> FALSE,
     before |-> None, const_run |-> 0, last |-> None,
     smoothed_visibility |-> None]

SmootherObs(s, landmarks) ==
    IF landmarks = None
    THEN [s EXCEPT !.given = None, !.was_cold = FALSE, !.before = None]
    ELSE [s EXCEPT !.given = landmarks,
                   !.calls = @ + 1,
                   !.was_cold = (s.landmark_history = << >>
                                 /\ s.smoothed_landmarks = None),
                   !.before = IF unit = "heel_slides.LandmarkSmoother"
                              THEN Some(s.landmark_history)
                              ELSE s.smoothed_landmarks,
                   !.const_run = IF s.last = landmarks THEN @ + 1 ELSE 1,
                   !.last = landmarks]

BlendedVisibility(s, landmarks) ==
    IF landmarks = None THEN s.smoothed_visibility
    ELSE LET f == Val(landmarks)
         IN  Some([i \in DOMAIN f |->
                     IF s.smoothed_visibility = None THEN f[i].visibility
                     ELSE Blend(f[i].visibility, Val(s.smoothed_visibility)[i])])

SmootherFrame ==
    UNCHANGED << unit, lenient_mode, now, timer_vars, tracker_vars, session_vars,
                 factory, config, mixer, twin >>

SmootherArgs == {None} \cup {Some(f) : f \in SmootherFrames}

\* smoothed_landmarks = self.landmark_smoother.update_landmarks(landmarks)
CallUpdateLandmarks ==
    /\ unit = "heel_slides.LandmarkSmoother"
    /\ \E landmarks \in SmootherArgs :
          /\ landmarks # None => smoother.calls < MaxCalls
          /\ \E r \in {UpdateLandmarks(smoother, landmarks)} :
                smoother' = [SmootherObs(smoother, landmarks) EXCEPT
                                !.landmark_history = r.landmark_history,
                                !.returned = r.returned]
    /\ SmootherFrame

\* smoother(landmarks)
CallSmoother ==
    /\ unit = "lib.landmark_smoother.LandmarkSmoother"
    /\ \E landmarks \in SmootherArgs :
          /\ landmarks # None => smoother.calls < MaxCalls
          /\ \E r \in {SmootherCall(smoother, landmarks)} :
                smoother' = [SmootherObs(smoother, landmarks) EXCEPT
                                !.smoothed_landmarks = r.smoothed_landmarks,
                                !.returned = r.returned,
                                !.smoothed_visibility =
                                    BlendedVisibility(smoother, landmarks)]
    /\ SmootherFrame

SmootherSpecInit ==
    /\ unit \in SmootherUnits
    /\ lenient_mode = FALSE
    /\ now = 0
    /\ TimerInit(0)
    /\ pose_tracker = None
    /\ tracker_obs = None
    /\ NoSession
    /\ factory = None
    /\ config = None
    /\ mixer = None
    /\ twin = None
    /\ smoother \in {NewSmoother(n) :
                        n \in (IF unit = "heel_slides.LandmarkSmoother"
                               THEN BufferSizes ELSE {0})}

SmootherNext ==
    \/ CallUpdateLandmarks
    \/ CallSmoother

SmootherSpec == SmootherSpecInit /\ [][SmootherNext]_vars

\* ------------- HeelCycleSpec: heel_slides.PoseTracker, the cycle of each leg
\* The tracker is called as in TrackerSpec, and the calls are recorded per leg
\* (history, not program state):
\*   op     the method called last
\*   seen   per leg: the frames seen since the leg's last reset and the
\*          leg's completed cycles
\* A leg's frames are followed in stages: stage 0 waits for 3 consecutive
\* extended frames, stage 1 then for 3 consecutive flexed frames, stage 2 then
\* for 3 consecutive extended frames, and stage 3 has seen all three runs;
\* run is the length of the run the stage is waiting for.  completed_at is
\* the time at which cycle_completed last turned true, and gap the time
\* between that and the completion before it (None for the first).
HeelSeenNew == [stage |-> 0, run |-> 0, completed_at |-> None, gap |-> None]

\* the record of one leg after an update that took the leg from s to s1 on a
\* frame that is extended (e) or flexed (fl)
HeelSeenSide(m, s, s1, e, fl) ==
    LET run1 == CASE m.stage \in {0, 2} -> (IF e THEN m.run + 1 ELSE 0)
                  [] m.stage = 1 -> (IF fl THEN m.run + 1 ELSE 0)
                  [] OTHER -> 0
        advance == m.stage < 3 /\ run1 >= 3
        turns == ~s.cycle_completed /\ s1.cycle_completed
    IN  [stage |-> IF advance THEN m.stage + 1 ELSE m.stage,
         run |-> IF advance THEN 0 ELSE run1,
         completed_at |-> IF turns THEN Some(now) ELSE m.completed_at,
         gap |-> IF ~turns THEN m.gap
                 ELSE IF m.completed_at = None THEN None
                 ELSE Some(now - Val(m.completed_at))]

\* the record after an update with the frame f that left the tracker t1
HeelSeen(f, t1) ==
    [l |-> HeelSeenSide(tracker_obs.seen.l, pose_tracker.l, t1.l,
                        HeelIsExtended(f.lying_down, f.l),
                        HeelIsFlexed(f.lying_down, f.l)),
     r |-> HeelSeenSide(tracker_obs.seen.r, pose_tracker.r, t1.r,
                        HeelIsExtended(f.lying_down, f.r),
                        HeelIsFlexed(f.lying_down, f.r))]

\* a reset of the leg starts its record of frames again
HeelSeenReset(op) ==
    LET again(m) == [m EXCEPT !.stage = 0, !.run = 0]
    IN  [l |-> IF op = "resetLeft" THEN again(tracker_obs.seen.l) ELSE tracker_obs.seen.l,
         r |-> IF op = "resetRight" THEN again(tracker_obs.seen.r) ELSE tracker_obs.seen.r]

HeelCycleFrame == UNCHANGED << unit, lenient_mode, now, timer_vars, session_vars, app_vars >>

HeelCycleUpdate ==
    /\ unit = "heel_slides.PoseTracker"
    /\ \E f \in HeelFrames :
          \E t1 \in {HeelUpdate(pose_tracker, f, now)} :
             /\ t1.l.extended_count <= MaxConsecutive
             /\ t1.r.extended_count <= MaxConsecutive
             /\ pose_tracker' = t1
             /\ tracker_obs' = [op |-> "update", seen |-> HeelSeen(f, t1)]
    /\ HeelCycleFrame

HeelCycleResetLeftTracker ==
    /\ unit = "heel_slides.PoseTracker"
    /\ pose_tracker' = HeelResetLeftTracker(pose_tracker)
    /\ tracker_obs' = [op |-> "resetLeft", seen |-> HeelSeenReset("resetLeft")]
    /\ HeelCycleFrame

HeelCycleResetRightTracker ==
    /\ unit = "heel_slides.PoseTracker"
    /\ pose_tracker' = HeelResetRightTracker(pose_tracker)
    /\ tracker_obs' = [op |-> "resetRight", seen |-> HeelSeenReset("resetRight")]
    /\ HeelCycleFrame

HeelCycleSpecInit ==
    /\ unit = "heel_slides.PoseTracker"
    /\ lenient_mode = FALSE
    /\ now = 0
    /\ TimerInit(0)
    /\ pose_tracker = HeelNew(now)
    /\ tracker_obs = [op |-> "new", seen |-> [l |-> HeelSeenNew, r |-> HeelSeenNew]]
    /\ NoSession
    /\ NoApp

HeelCycleNext ==
    \/ Tick
    \/ HeelCycleUpdate
    \/ HeelCycleResetLeftTracker
    \/ HeelCycleResetRightTracker

HeelCycleSpec == HeelCycleSpecInit /\ [][HeelCycleNext]_vars

\* ------- RelaxedSpec: a strict and a lenient PoseTracker on the same inputs
\* Two runs of bridging.py, cobra_stretch.py or ankle_toe_movement.py, one
\* started without and one with --lenient_mode, call updateTracker with the
\* same arguments; no resetTracker is called.  twin holds the tracker of
\* each run and the arguments of the last call (history).
RelaxedUnits == {"bridging", "cobra_stretch", "ankle_toe_movement"}

RelaxedFrame ==
    UNCHANGED << unit, lenient_mode, now, timer_vars, tracker_vars, session_vars,
                 factory, config, mixer, smoother >>

BridgingBothUpdateTracker ==
    /\ unit = "bridging"
    /\ \E f \in BridgingFrames :
          twin' = [strict |-> BridgingUpdateTrackerIn(FALSE, twin.strict, f),
                   lenient |-> BridgingUpdateTrackerIn(TRUE, twin.lenient, f),
                   given |-> Some(f)]
    /\ RelaxedFrame

CobraBothUpdateTracker ==
    /\ unit = "cobra_stretch"
    /\ \E f \in CobraFrames :
          twin' = [strict |-> CobraUpdateTrackerIn(FALSE, twin.strict, f),
                   lenient |-> CobraUpdateTrackerIn(TRUE, twin.lenient, f),
                   given |-> Some(f)]
    /\ RelaxedFrame

AnkleToeBothUpdateTracker ==
    /\ unit = "ankle_toe_movement"
    /\ \E f \in AnkleToeFrames :
          twin' = [strict |-> AnkleToeUpdateTrackerIn(FALSE, twin.strict, f),
                   lenient |-> AnkleToeUpdateTrackerIn(TRUE, twin.lenient, f),
                   given |-> Some(f)]
    /\ RelaxedFrame

RelaxedSpecInit ==
    /\ unit \in RelaxedUnits
    /\ lenient_mode = FALSE
    /\ now = 0
    /\ TimerInit(0)
    /\ pose_tracker = None
    /\ tracker_obs = None
    /\ NoSession
    /\ factory = None
    /\ config = None
    /\ mixer = None
    /\ smoother = None
    /\ twin = [strict |-> NewTracker(unit, now), lenient |-> NewTracker(unit, now),
               given |-> None]

RelaxedNext ==
    \/ BridgingBothUpdateTracker
    \/ CobraBothUpdateTracker
    \/ AnkleToeBothUpdateTracker

RelaxedSpec == RelaxedSpecInit /\ [][RelaxedNext]_vars

\* ------------------------------------------------------------------- claims

\* C1: within one continuous hold (a maximal run of update(true) calls) at
\* most one call returns newly_counted_rep=true, however long the hold lasts.
C1_OneRepPerHold == timer_obs.run_reps <= 1

\* a hold that went on after its repetition was credited, past the requirement
C1_Witness ==
    /\ timer_obs.in_hold_pose = Some(TRUE)
    /\ timer_obs.run_reps = 1
    /\ ~timer_status.newly_counted_rep
    /\ Val(timer_obs.elapsed) > Val(timer_obs.required)

\* C3: the first update(true) call of a hold, after the one that started it,
\* that sees elapsed >= adaptive_hold_secs returns newly_counted_rep=true;
\* elapsed = adaptive_hold_secs is enough.
C3_CreditedOnFirstReach == timer_obs.first_reach => timer_status.newly_counted_rep

\* credited with elapsed exactly equal to the (non-zero) requirement
C3_Witness ==
    /\ timer_obs.first_reach
    /\ timer_status.newly_counted_rep
    /\ Val(timer_obs.elapsed) = Val(timer_obs.required)
    /\ Val(timer_obs.required) > 0

\* the call ended a hold: update(false) while a hold was in progress
FallingEdge == timer_obs.in_hold_pose = Some(FALSE) /\ timer_obs.was_in_progress

\* C4: a hold that ends (update(false)) with less than the required duration
\* elapsed: none of its calls returned newly_counted_rep=true, and
\* adaptive_hold_secs after the call is <= its value before the hold.
C4_ShortHoldNotCredited ==
    (FallingEdge /\ Val(timer_obs.elapsed) < Val(timer_obs.required))
        => /\ timer_obs.run_reps = 0
           /\ adaptive_hold_secs <= Val(timer_obs.hold_required)

\* a short hold that lowered the requirement
C4_Witness ==
    /\ FallingEdge
    /\ Val(timer_obs.elapsed) < Val(timer_obs.required)
    /\ adaptive_hold_secs < Val(timer_obs.hold_required)

\* C10: needs_reset is true exactly on an update(false) call made while a hold
\* was in progress, credited or not, and after such a call rep_in_progress is
\* false, hold_start_time is None and rep_counted_this_hold is false.
C10_NeedsResetOnFallingEdge ==
    /\ timer_status.needs_reset <=> FallingEdge
    /\ timer_status.needs_reset =>
          /\ ~rep_in_progress
          /\ hold_start_time = None
          /\ ~rep_counted_this_hold

\* the end of a hold in which a repetition had been credited
C10_Witness == timer_status.needs_reset /\ timer_obs.run_reps = 1

\* the end of a hold in which no repetition had been credited
C10_WitnessUncredited == timer_status.needs_reset /\ timer_obs.run_reps = 0

\* the trackers built as "if not resting: ... if resting: ..." (C2's list)
GatedKinds ==
    {"bridging", "cobra_stretch", "ankle_toe_movement", "any_straight_leg_raise",
     "any_prone_straight_leg_raise", "shoulder_blade_squeeze"}

Sides == 1 .. Len(RestFlags(pose_tracker))
Rest(i) == RestFlags(pose_tracker)[i]
Target(i) == TargetFlags(pose_tracker)[i]

\* C2: gating invariant: after any sequence of update and reset calls the
\* target flag of a side is false whenever its resting flag is false.
C2_Gating == \A i \in Sides : ~Rest(i) => ~Target(i)

\* an update whose inputs satisfy the target conjunction left the target
\* flag false because the side is not resting
C2_Witness ==
    /\ Kind \in GatedKinds
    /\ tracker_obs.op = "update"
    /\ \E i \in Sides : ~Rest(i) /\ tracker_obs.target_now[i] /\ ~Target(i)

\* C6 as claimed: an update made while the resting flag is true, on inputs
\* for which the baseline conjunction does not hold, leaves both the resting
\* and the target flag false.
C6_BaselineLostClearsBoth_Step ==
    (Kind \in GatedKinds /\ tracker_obs'.op = "update")
        => \A i \in Sides :
              (Rest(i) /\ ~tracker_obs'.base_now[i])
                 => /\ ~RestFlags(pose_tracker')[i]
                    /\ ~TargetFlags(pose_tracker')[i]

C6_BaselineLostClearsBoth == [][C6_BaselineLostClearsBoth_Step]_vars

\* C6 as amended: an update made while the resting flag is true leaves it
\* true whatever the inputs; the flag is cleared only by the reset method,
\* which clears the target flag in the same call.
C6_RestingLatchedUntilReset_Step ==
    Kind \in GatedKinds
        => \A i \in Sides :
              Rest(i) =>
                 IF tracker_obs'.op = "update"
                 THEN RestFlags(pose_tracker')[i]
                 ELSE ~RestFlags(pose_tracker')[i] /\ ~TargetFlags(pose_tracker')[i]

C6_RestingLatchedUntilReset == [][C6_RestingLatchedUntilReset_Step]_vars

\* after an update whose inputs do not satisfy the baseline conjunction the
\* resting flag is still true, and so is the target flag
C6_Witness ==
    /\ Kind \in GatedKinds
    /\ tracker_obs.op = "update"
    /\ \E i \in Sides : Rest(i) /\ ~tracker_obs.base_now[i] /\ Target(i)

\* C7 as claimed: in every tracker, while the baseline flag is true the
\* target flag after an update equals the target conjunction on that
\* update's inputs.
C7_TargetReevaluatedEverywhere ==
    tracker_obs.op = "update"
        => \A i \in Sides : Rest(i) => (Target(i) = tracker_obs.target_now[i])

\* C7 as amended: that holds in the six gated trackers; the sbs2 and the
\* heel-slides trackers keep a target flag (squeezed, flexed_pose) true
\* across updates until a reset.
C7_TargetReevaluatedWhereGated_Step ==
    tracker_obs'.op = "update"
        => IF Kind \in GatedKinds
           THEN \A i \in Sides :
                   RestFlags(pose_tracker')[i]
                      => (TargetFlags(pose_tracker')[i] = tracker_obs'.target_now[i])
           ELSE \A i \in Sides : Target(i) => TargetFlags(pose_tracker')[i]

C7_TargetReevaluatedWhereGated == [][C7_TargetReevaluatedWhereGated_Step]_vars

\* a gated tracker whose target flag was true before the update and is
\* false after it, the side still resting
C7_Witness ==
    /\ Kind \in GatedKinds
    /\ tracker_obs.op = "update"
    /\ \E i \in Sides :
          /\ tracker_obs.was_target[i] /\ Rest(i)
          /\ ~Target(i) /\ ~tracker_obs.target_now[i]

\* C9: resetTracker()/reset() is idempotent: a second call right after the
\* first leaves every field of the tracker as the first call left it.
C9_ResetIdempotent_Step ==
    (tracker_obs.op # "update" /\ tracker_obs'.op = tracker_obs.op)
        => pose_tracker' = pose_tracker

C9_ResetIdempotent == [][C9_ResetIdempotent_Step]_vars

\* a reset method called twice in a row
C9_Witness == tracker_obs.op \in {"reset", "resetLeft", "resetRight"} /\ tracker_obs.repeated

\* ---- claims on the frame loops
\* the last frame incremented the count
Counted == \E i \in SessionSides : session_obs.counted[i]

\* the hold duration the session asks for
RequiredHold ==
    IF unit = "ShoulderBladeSqueezeTracker" THEN adaptive_hold_secs ELSE HOLD_SECS

\* Side i's target flag has been true at the tracker update of every
\* processed frame for the required duration, up to the last frame.
HoldConfirmed(i) ==
    /\ session_obs.held_since[i] # None
    /\ session_obs.held_before[i]
    /\ IF unit \in ScriptUnits
       THEN now - Val(session_obs.held_since[i]) > RequiredHold
       ELSE now - Val(session_obs.held_since[i]) >= RequiredHold

HoldTimedSessions ==
    {"bridging.py", "cobra_stretch.py", "ankle_toe_movement.py",
     "any_prone_straight_leg_raise.py", "ShoulderBladeSqueezeTracker"}

C8_ResetOnceAllFlagsCleared ==
    Counted =>
        /\ session_obs.resets = 1
        /\ \A i \in SessionSides :
              ~RestFlags(pose_tracker)[i] /\ ~TargetFlags(pose_tracker)[i]

\* C8: on the frame that counts a repetition,
\*   the scripts' loops and the sbs2 session reset the tracker once, and every
\*   phase flag of every side is false after the frame;
\*   the shoulder_blade_squeeze session does not reset the tracker, and both of
\*   its flags stay true;
\*   the heel-slides session resets each counted side once, and the flags of
\*   the counted sides are false after the frame.
C8_ResetOnCountingFrame ==
    Counted =>
        CASE unit \in ScriptUnits \cup {"ShoulderBladeSqueezeTracker2"} ->
                /\ session_obs.resets = 1
                /\ \A i \in SessionSides :
                      ~RestFlags(pose_tracker)[i] /\ ~TargetFlags(pose_tracker)[i]
          [] unit = "ShoulderBladeSqueezeTracker" ->
                /\ session_obs.resets = 0
                /\ RestFlags(pose_tracker)[1] /\ TargetFlags(pose_tracker)[1]
          [] unit = "HeelSlidesTracker" ->
                /\ session_obs.resets = Cardinality({i \in SessionSides : session_obs.counted[i]})
                /\ \A i \in SessionSides :
                      session_obs.counted[i] =>
                         ~RestFlags(pose_tracker)[i] /\ ~TargetFlags(pose_tracker)[i]
          [] OTHER -> FALSE

C8_Witness ==
    /\ unit = "bridging.py"
    /\ Counted
    /\ session_obs.resets = 1
    /\ count = 2

\* ---- further claims on the timer
\* C11 as stated: a hold that ends with an achieved duration shorter than
\* adaptive_hold_secs sets adaptive_hold_secs to the achieved duration.
C11_ShortHoldSetsAchieved ==
    (FallingEdge /\ Val(timer_obs.elapsed) < Val(timer_obs.required))
        => adaptive_hold_secs = Val(timer_obs.elapsed)

\* C11: a hold that ends with an achieved duration shorter than
\* adaptive_hold_secs sets adaptive_hold_secs to the achieved duration if
\* that is at least initial_hold_secs, and leaves it unchanged otherwise.
C11_ShortHoldSetsAchievedAboveInitial ==
    (FallingEdge /\ Val(timer_obs.elapsed) < Val(timer_obs.required))
        => adaptive_hold_secs =
              IF Val(timer_obs.elapsed) >= initial_hold_secs
              THEN Val(timer_obs.elapsed)
              ELSE Val(timer_obs.required)

\* a short hold, still above the configured duration, lowered the requirement
C11_Witness ==
    /\ FallingEdge
    /\ Val(timer_obs.elapsed) < Val(timer_obs.required)
    /\ Val(timer_obs.elapsed) >= initial_hold_secs
    /\ adaptive_hold_secs = Val(timer_obs.elapsed)
    /\ initial_hold_secs > 0

\* a hold shorter than the configured duration left the requirement alone
C11_WitnessBelowInitial ==
    /\ FallingEdge
    /\ Val(timer_obs.elapsed) < initial_hold_secs
    /\ Val(timer_obs.elapsed) > 0
    /\ adaptive_hold_secs = Val(timer_obs.required)

\* C12: a hold that ends with an achieved duration d >= adaptive_hold_secs = h
\* sets adaptive_hold_secs to h + (d - h)/2, i.e. twice the new value is h + d.
C12_OvershootHalved ==
    (FallingEdge /\ Val(timer_obs.elapsed) >= Val(timer_obs.required))
        => 2 * adaptive_hold_secs = Val(timer_obs.required) + Val(timer_obs.elapsed)

\* an overshoot of an odd number of ticks over a requirement already raised
C12_Witness ==
    /\ FallingEdge
    /\ Val(timer_obs.elapsed) > Val(timer_obs.required)
    /\ Val(timer_obs.required) > initial_hold_secs
    /\ adaptive_hold_secs > Val(timer_obs.required)
    /\ adaptive_hold_secs < Val(timer_obs.elapsed)

\* C13: an update(true) made while the hold was in progress, with the elapsed
\* time below adaptive_hold_secs, returns the text 'hold pose: <remaining>'
\* and newly_counted_rep=false; no result carries both a status_text and
\* newly_counted_rep=true.
C13_StatusWhileShort ==
    /\ (/\ timer_obs.in_hold_pose = Some(TRUE)
        /\ timer_obs.was_in_progress
        /\ Val(timer_obs.elapsed) < Val(timer_obs.required))
          => /\ timer_status.status_text =
                   << "hold pose: ", Fmt2(Val(timer_obs.required) - Val(timer_obs.elapsed)) >>
             /\ ~timer_status.newly_counted_rep
    /\ ~(timer_status.status_text # None /\ timer_status.newly_counted_rep)

\* a status text with time remaining on a requirement that had been adapted
C13_Witness ==
    /\ timer_obs.in_hold_pose = Some(TRUE)
    /\ timer_obs.was_in_progress
    /\ Val(timer_obs.elapsed) < Val(timer_obs.required)
    /\ Val(timer_obs.elapsed) > 0
    /\ Val(timer_obs.required) # initial_hold_secs
    /\ timer_status.status_text # None

\* ---- frames without a person
\* the frames skipped by `if not pose_landmarks: continue` and, in
\* heel_slides.py, by `if not smoothed_landmarks`
NoPersonKinds == {"no_pose", "no_landmarks"}

\* C14: a frame on which no person is detected is skipped with no state
\* change: the count, the tracker's flags, the hold timer's state and the
\* smoother's history are after the frame what they were before it.
C14_Step ==
    session_obs'.frame \in NoPersonKinds
        => UNCHANGED << count, pose_tracker, timer_vars, check_timer, old_time,
                        landmark_history >>

C14_NoPersonFrameSkipped == [][C14_Step]_vars

\* a heel-slides frame without landmarks, skipped while a leg was extended
\* and the smoother's buffers were partly filled
C14_Witness ==
    /\ unit = "HeelSlidesTracker"
    /\ session_obs.frame = "no_landmarks"
    /\ landmark_history > 0 /\ landmark_history < buffer_size
    /\ pose_tracker.l.extended_pose

\* a shoulder-blade frame without a pose, skipped while a hold was timed
C14_WitnessInHold ==
    /\ unit = "ShoulderBladeSqueezeTracker"
    /\ session_obs.frame = "no_pose"
    /\ rep_in_progress
    /\ count > 0

\* ---- stopping a session
\* C15: a running session honours an external stop signal: the signal is
\* looked at on every processed frame; and once the loop has ended no
\* repetition is credited any more, whatever hold was in progress.
C15_Step ==
    /\ session_obs'.frame = "pose" => session_obs'.stop_checked
    /\ pc # "loop" => count' = count

C15_StopHonoured == [][C15_Step]_vars

\* a frame of a session that runs without display, processed with a hold in
\* progress and no look at a stop signal: the loop goes on
C15_StopIgnored ==
    /\ session_obs.frame = "pose" /\ ~session_obs.stop_checked
    /\ pc = "loop"
    /\ ~display
    /\ rep_in_progress

\* ---- the end of the stream
\* C16: when the frame source reports the end of the stream (success false)
\* the loop ends without touching the count, and what follows the loop is the
\* cleanup, which releases the capture and reports the accumulated count as
\* the final count.
C16_Step ==
    /\ (pc = "loop" /\ session_obs'.frame = "eof")
          => (pc' = "done" /\ count' = count /\ final_count' = None)
    /\ pc = "done"
          => (pc' = "returned" /\ cap' = "released" /\ final_count' = Some(count))
    /\ pc = "returned" => UNCHANGED << count, final_count >>

C16_EndOfStreamReportsCount == [][C16_Step]_vars

\* a session that counted, met the end of the stream and reported its count
C16_Witness ==
    /\ session_obs.frame = "eof"
    /\ pc = "returned"
    /\ cap = "released"
    /\ count > 0
    /\ final_count = Some(count)

\* ---- the factory
\* C17: create_tracker(name) with a name that is not registered raises
\* ValueError and constructs no tracker; with a registered name it returns an
\* instance of exactly the class registered under that name.
C17_Step ==
    factory' # factory =>
        LET name == Val(factory'.exercise_name)
        IN  IF name \in {"ankle_toe_movement", "cobra_stretch", "bridging", "any_slr",
                         "any_prone_slr"}
            THEN /\ factory'.raised = None
                 /\ factory'.returned = Some(TRACKERS[name])
                 /\ factory'.created = Append(factory.created, TRACKERS[name])
            ELSE /\ factory'.raised = Some("ValueError")
                 /\ factory'.returned = None
                 /\ factory'.created = factory.created

C17_FactoryByName == [][C17_Step]_vars

\* an unregistered name refused after two trackers were made
C17_Witness ==
    /\ factory.raised = Some("ValueError")
    /\ factory.exercise_name = Some("heel_slides")
    /\ factory.created = << "BridgingTracker", "AnySLRTracker" >>

\* ---- the threshold file
\* C18: when the threshold file is missing or malformed the session falls
\* back to the built-in defaults and processes frames without a fatal error;
\* no undefined threshold is ever used.
C18_DefaultsWithoutFile ==
    config.file \in {"missing", "malformed"} =>
        /\ config.raised = None
        /\ config.pc = "loop" => config.thresholds = "defaults"

\* the straight-leg-raise script, its file missing, stopped by a NameError on
\* the first frame with a pose after frames without one
C18_UndefinedMultiplyerUsed ==
    /\ unit = "any_straight_leg_raise.py"
    /\ config.file = "missing"
    /\ config.thresholds = "defaults"
    /\ config.raised = Some("NameError")
    /\ config.frames > 1

\* a heel-slides constructor stopped by a file that is not JSON
C18_MalformedFileRaises ==
    /\ unit = "HeelSlidesTracker"
    /\ config.file = "malformed"
    /\ config.raised = Some("JSONDecodeError")

\* ---- the shared mixer
\* the threads that have loaded their sound and not yet started it
BetweenLoadAndPlay(m) == {i \in 1..Len(m.threads) : m.threads[i].pc = "play"}

\* C19: at most one sound plays at a time: a request that arrives while a
\* sound plays is queued or dropped, so that a sound that plays is ended by
\* nothing but its own end; and the load and play steps of two requests are
\* never interleaved.
C19_Step ==
    /\ (mixer.playing # None /\ mixer'.playing # mixer.playing)
          => (mixer'.playing = None /\ mixer'.loaded = mixer.loaded
                /\ mixer'.threads = mixer.threads)
    /\ Cardinality(BetweenLoadAndPlay(mixer')) <= 1

C19_OneSoundAtATime == [][C19_Step]_vars

\* two requests interleaved: the first thread started the sound of the
\* second, and the second started it again
C19_Interleaved ==
    /\ Len(mixer.threads) = 2
    /\ mixer.threads[1].sound_path = "short-sample.wav"
    /\ mixer.threads[2].sound_path = "set-complete.wav"
    /\ mixer.threads[1].pc = "wait"
    /\ mixer.threads[2].pc = "wait"
    /\ mixer.playing = Some("set-complete.wav")

\* ---- lenient mode
\* C20: in lenient mode, for the straight-leg-raise and the prone
\* straight-leg-raise trackers, two runs whose update sequences differ only
\* in the other side's ankle, knee and raise inputs give the same resting and
\* raise flags for this side.
C20_LenientSideIndependent ==
    (lenient_mode /\ twin # None)
        => SideFlags(pose_tracker, twin.side) = SideFlags(twin.tracker, twin.side)

\* in lenient mode, after frames that differed on the other leg, this side is
\* raised in both runs while the other side's flags differ
C20_Witness ==
    /\ lenient_mode /\ twin # None
    /\ SideFlags(pose_tracker, twin.side) = << TRUE, TRUE >>
    /\ SideFlags(twin.tracker, twin.side) = << TRUE, TRUE >>
    /\ SideFlags(pose_tracker, Other(twin.side)) # SideFlags(twin.tracker, Other(twin.side))

\* without lenient mode the other leg decides: the two runs part on this side
C20_WitnessStrictDepends ==
    /\ ~lenient_mode /\ twin # None
    /\ SideFlags(pose_tracker, twin.side) # SideFlags(twin.tracker, twin.side)

\* ---------------------------------------------------------------- C21
\* C21: in the sessions that track each side, crediting a repetition on one
\* side (and the reset that follows it) leaves the other side's phase flags
\* as they were: a baseline flag the other side had latched before the frame,
\* which no update clears, is still latched after a frame that credits this
\* side alone.
C21_Step ==
    \A i \in SessionSides : \A j \in SessionSides \ {i} :
        ( /\ session_obs'.frame = "pose"
          /\ session_obs'.counted[i] /\ ~session_obs'.counted[j]
          /\ count' = count + 1
          /\ RestFlags(pose_tracker)[j] )
        => RestFlags(pose_tracker')[j]

C21_SidesIndependent == [][C21_Step]_vars

\* the heel-slides session credits the left leg and the right leg keeps the
\* extended pose it had confirmed
C21_HeelOtherSideKept ==
    /\ unit = "HeelSlidesTracker"
    /\ session_obs.frame = "pose"
    /\ session_obs.counted[1] /\ ~session_obs.counted[2]
    /\ pose_tracker.r.extended_pose /\ ~pose_tracker.l.extended_pose

\* ---------------------------------------------------------------- C22
\* C22: in the shoulder-blade-squeeze session a frame whose hip distance is 0,
\* for which shoulder_hip_ratio is forced to 0, never sets squeeze_pose to
\* true, and the tracker keeps the state it had latched.
C22_Step ==
    (unit = "ShoulderBladeSqueezeTracker" /\ session_obs'.degenerate)
    => /\ ~pose_tracker.squeeze_pose => ~pose_tracker'.squeeze_pose
       /\ pose_tracker'.resting_pose = pose_tracker.resting_pose

C22_DegenerateNeverSqueezes == [][C22_Step]_vars

\* a frame with hip distance 0 has set squeeze_pose and started the hold
C22_DegenerateStartsHold ==
    /\ unit = "ShoulderBladeSqueezeTracker"
    /\ session_obs.degenerate
    /\ pose_tracker.squeeze_pose
    /\ ~session_obs.held_before[1]
    /\ rep_in_progress

\* ---------------------------------------------------------------- C23
\* the visibility a smoother that treats it as x, y and z would return for
\* landmark i after the last call
ExpectedVisibility(i) ==
    IF smoother.was_cold THEN Val(smoother.given)[i].visibility
    ELSE IF unit = "heel_slides.LandmarkSmoother"
    THEN SumOf(smoother.landmark_history[i], 4) \div Len(smoother.landmark_history[i])
    ELSE Val(smoother.smoothed_visibility)[i]

\* C23: both smoothers pass the visibility through: for every landmark index
\* the returned visibility is the given one on the cold-start frame, and on
\* later frames the visibilities given so far smoothed as x, y and z are.
C23_VisibilityPassedThrough ==
    (unit \in SmootherUnits /\ smoother.given # None)
    => \A i \in LandmarkIndices :
          Val(smoother.returned)[i].visibility = ExpectedVisibility(i)

\* the blending smoother is given visibility 1 twice and returns 0
C23_VisibilityDropped ==
    /\ unit = "lib.landmark_smoother.LandmarkSmoother"
    /\ smoother.given # None /\ smoother.calls = 2 /\ smoother.const_run = 2
    /\ Val(smoother.given)[1].visibility = One
    /\ Val(smoother.returned)[1].visibility = 0
    /\ Val(smoother.returned)[1].y = One

\* the averaging smoother returns the mean of two different visibilities
C23_VisibilityAveraged ==
    /\ unit = "heel_slides.LandmarkSmoother"
    /\ smoother.given # None /\ smoother.calls = 2 /\ smoother.const_run = 1
    /\ Val(smoother.given)[1].visibility = One
    /\ 2 * Val(smoother.returned)[1].visibility = One

\* ---------------------------------------------------------------- C24
\* C24: on the first call with a list of landmarks after construction each
\* smoother returns every landmark as it was given (not zero-filled, not
\* averaged), and a call with None returns None and leaves the history, or
\* the smoothed list, as it was (none is created).
C24_Step ==
    /\ (smoother'.given # None /\ smoother'.calls = 1)
       => smoother'.returned = smoother'.given
    /\ smoother'.given = None
       => /\ smoother'.returned = None
          /\ smoother'.landmark_history = smoother.landmark_history
          /\ smoother'.smoothed_landmarks = smoother.smoothed_landmarks

C24_ColdStart == [][C24_Step]_vars

\* the first list has just been given, with coordinates that are not zero
C24_Witness ==
    /\ unit \in SmootherUnits
    /\ smoother.given # None /\ smoother.calls = 1
    /\ Val(smoother.returned)[1] = Landmark(One, 0, One, 0)
    /\ Val(smoother.returned)[2] = Landmark(0, 0, One, One)

\* None has just been given to a smoother that holds samples
C24_WitnessNone ==
    /\ unit = "heel_slides.LandmarkSmoother"
    /\ smoother.given = None /\ smoother.calls = 2
    /\ Len(smoother.landmark_history[1]) = 2

\* ---------------------------------------------------------------- C25
\* C25: in the moving-average smoother every landmark's history holds at
\* most buffer_size samples after any sequence of update_landmarks calls, and
\* an append to a full history drops its oldest sample (first in, first out).
C25_Step ==
    unit = "heel_slides.LandmarkSmoother" =>
        \A i \in DOMAIN smoother'.landmark_history :
            /\ Len(smoother'.landmark_history[i]) <= smoother'.buffer_size
            /\ ( /\ smoother'.calls = smoother.calls + 1
                 /\ i \in DOMAIN smoother.landmark_history
                 /\ Len(smoother.landmark_history[i]) = smoother.buffer_size )
               => smoother'.landmark_history[i]
                     = Append(Tail(smoother.landmark_history[i]),
                              Sample(Val(smoother'.given)[i]))

C25_WindowBoundedFifo == [][C25_Step]_vars

\* a sixth list has been given to a smoother with the default window of 5,
\* and the sample dropped differed from the one that is now the oldest
C25_Witness ==
    /\ unit = "heel_slides.LandmarkSmoother"
    /\ smoother.buffer_size = buffer_size
    /\ smoother.given # None /\ smoother.calls = buffer_size + 1
    /\ Len(smoother.landmark_history[1]) = buffer_size
    /\ Val(smoother.before)[1][1] # smoother.landmark_history[1][1]
    /\ smoother.landmark_history[1][1] = Val(smoother.before)[1][2]

\* ---------------------------------------------------------------- C26
\* the x, y, z of a landmark
Position(l) == << l.x, l.y, l.z >>

\* the number of equal lists after which the claim expects the constant:
\* the window of the averaging smoother; the blending smoother has none and
\* the default window is taken
WindowSize ==
    IF unit = "heel_slides.LandmarkSmoother" THEN smoother.buffer_size
    ELSE buffer_size

C26_WitnessBlend ==
    /\ unit = "lib.landmark_smoother.LandmarkSmoother"
    /\ smoother.given # None
    /\ smoother.calls = buffer_size + 1 /\ smoother.const_run = buffer_size
    /\ Val(smoother.given)[1].x = One
    /\ 32 * (One - Val(smoother.returned)[1].x) = One

\* ---------------------------------------------------------------- C27
\* C27: a session given a repetition target reps = N stops consuming frames
\* once the count has reached N, so that the count it returns never exceeds
\* N (reps is 0 here when no target is given).
C27_RepsTargetStops ==
    (unit \in SessionUnits /\ reps # 0)
    => /\ count >= reps => pc # "loop"
       /\ pc = "returned" => Val(final_count) <= reps

\* a session with a target has returned a count above it
C27_FinalCountExceeds ==
    /\ unit \in SessionUnits /\ reps # 0
    /\ pc = "returned" /\ Val(final_count) > reps

\* a displayed session with a target has stopped on reaching it
C27_StoppedAtTarget ==
    /\ unit \in SessionUnits /\ reps # 0 /\ display
    /\ pc = "returned" /\ Val(final_count) = reps
    /\ session_obs.frame = "pose" /\ session_obs.counted # NoSide

\* the heel-slides session with a target credits both legs on one frame: the
\* count rises by two between two tests of the target
C27_HeelBothLegs ==
    /\ unit = "HeelSlidesTracker" /\ reps # 0
    /\ session_obs.counted = << TRUE, TRUE >>

\* ---------------------------------------------------------------- C28
\* n is a multiple of k
MultipleOf(n, k) == \E q \in 1..n : n = q * k

SingleTrackerLoops == {"bridging.py", "cobra_stretch.py", "ankle_toe_movement.py"}

\* C30: in the loops of bridging, cobra and ankle-toe the count is
\* incremented only on a frame at which the target flag (and with it the
\* resting flag) has been true on every processed frame since the hold
\* timing started, more than HOLD_SECS earlier; a processed frame with the
\* target flag false stops the timing, and the next hold is timed from its
\* own first frame, so that separate holds never add up.
C30_HoldTimedFromItsStart ==
    unit \in SingleTrackerLoops =>
        /\ session_obs.held_since[1] = None => ~check_timer[1]
        /\ check_timer[1] => old_time[1] = session_obs.held_since[1]
        /\ session_obs.counted[1] =>
              /\ session_obs.held_before[1]
              /\ old_time[1] = session_obs.held_since[1]
              /\ now - Val(old_time[1]) > HOLD_SECS

\* a hold of 2 ticks is asked for; one timed from tick 1 is credited at tick 4
C30_Witness ==
    /\ unit \in SingleTrackerLoops
    /\ session_obs.counted[1] /\ count = 1
    /\ HOLD_SECS = 2 * Scale
    /\ now = 4 * Scale
    /\ Val(old_time[1]) = Scale

\* a frame without the target pose has stopped a timing that was running
C30_WitnessRestart ==
    /\ unit \in SingleTrackerLoops
    /\ session_obs.frame = "pose"
    /\ session_obs.held_since[1] = None
    /\ old_time[1] # None /\ ~check_timer[1]
    /\ count = 0
    /\ RestFlags(pose_tracker)[1]

\* ---------------------------------------------------------------- C31
TwoSidedLoops == {"any_straight_leg_raise.py", "any_prone_straight_leg_raise.py"}

\* C31: in the two-sided frame loops (SLR, prone SLR) a side is credited only
\* when its raise flag has been true at every processed frame since a start
\* more than HOLD_SECS earlier; a start time recorded before the other side's
\* repetition reset the tracker never credits it.
C31_TimingDiscardedByReset ==
    unit \in TwoSidedLoops =>
        \A i \in SessionSides : session_obs.counted[i] => HoldConfirmed(i)

\* the prone loop alone: the timing there always started with the present
\* unbroken run of the raise flag
C31_ProneTimingDiscarded ==
    unit = "any_prone_straight_leg_raise.py" =>
        \A i \in SessionSides :
            /\ session_obs.counted[i] => HoldConfirmed(i)
            /\ (check_timer[i] /\ session_obs.held_since[i] # None)
                  => old_time[i] = session_obs.held_since[i]

\* the straight-leg-raise loop credits the right leg on the first frame its
\* raise flag is true after the left leg's repetition reset the tracker
C31_CreditedOnOldStart ==
    /\ unit = "any_straight_leg_raise.py"
    /\ count = 2
    /\ session_obs.counted[2]
    /\ ~session_obs.held_before[2]
    /\ session_obs.held_since[2] = Some(now)
    /\ old_time[2] # Some(now)

\* ---------------------------------------------------------------- C32
\* C32: with the default thresholds an update of the bridging tracker
\* (lenient or strict) or of the straight-leg-raise tracker that finds a
\* side's resting flag false leaves that side's target flag false: the target
\* flag turns true only in a later update than the one that set the resting
\* flag.
C32_Step ==
    unit \in {"bridging", "any_straight_leg_raise"} =>
        \A i \in DOMAIN RestFlags(pose_tracker) :
            (tracker_obs'.op = "update" /\ ~RestFlags(pose_tracker)[i])
                => ~TargetFlags(pose_tracker')[i]

C32_RestBeforeTarget == [][C32_Step]_vars

\* the same for the strict bridging tracker alone, whose resting and raise
\* conjunctions ask both hips for disjoint angle ranges
C32_StrictBridging_Step ==
    (unit = "bridging" /\ ~lenient_mode) =>
        ((tracker_obs'.op = "update" /\ ~pose_tracker.resting_pose)
            => ~pose_tracker'.raise_pose)

C32_StrictBridgingRestBeforeTarget == [][C32_StrictBridging_Step]_vars

\* one update has taken the lenient bridging tracker from idle to both flags
C32_BridgingBothAtOnce ==
    /\ unit = "bridging" /\ lenient_mode
    /\ tracker_obs.op = "update"
    /\ tracker_obs.base_now = << TRUE >> /\ tracker_obs.target_now = << TRUE >>
    /\ pose_tracker.resting_pose /\ pose_tracker.raise_pose

\* one update has taken the left side of the straight-leg-raise tracker from
\* idle to both flags, in strict mode
C32_SlrBothAtOnce ==
    /\ unit = "any_straight_leg_raise" /\ ~lenient_mode
    /\ tracker_obs.op = "update"
    /\ tracker_obs.base_now[1] /\ tracker_obs.target_now[1]
    /\ tracker_obs.was_target = << FALSE, FALSE >>
    /\ pose_tracker.l_resting_pose /\ pose_tracker.l_raise_pose

\* ---------------------------------------------------------------- C33
\* C33: adaptive_hold_secs of the AdaptiveHoldTimer is at least
\* initial_hold_secs in every state, whatever update calls were made on a
\* clock that does not run backwards.
C33_NeverBelowInitial == adaptive_hold_secs >= initial_hold_secs

\* a requirement raised by an overshoot has been lowered back to exactly the
\* configured duration by a short hold
C33_Witness ==
    /\ FallingEdge
    /\ Val(timer_obs.required) > initial_hold_secs
    /\ Val(timer_obs.elapsed) = initial_hold_secs
    /\ adaptive_hold_secs = initial_hold_secs
    /\ initial_hold_secs > 0

\* a hold shorter than the configured duration ended while the requirement
\* was above it, and the requirement stayed where it was
C33_WitnessShorterThanInitial ==
    /\ FallingEdge
    /\ Val(timer_obs.elapsed) < initial_hold_secs
    /\ Val(timer_obs.required) > initial_hold_secs
    /\ adaptive_hold_secs = Val(timer_obs.required)

\* ---------------------------------------------------------------- C34
\* C34: the update call that starts a hold (in_hold_pose true while no hold
\* was in progress: the first such call after construction or after a call
\* with false) never returns newly_counted_rep=true, even when
\* adaptive_hold_secs is 0.
C34_NoCreditOnStartingCall ==
    (timer_obs.in_hold_pose = Some(TRUE) /\ ~timer_obs.was_in_progress)
        => ~timer_status.newly_counted_rep

\* a hold has just started, later than the construction, on a timer that
\* asks for a hold of 0 seconds
C34_Witness ==
    /\ timer_obs.in_hold_pose = Some(TRUE)
    /\ ~timer_obs.was_in_progress
    /\ adaptive_hold_secs = 0
    /\ hold_start_time = Some(now)
    /\ now > 0
    /\ ~timer_status.newly_counted_rep

\* ---------------------------------------------------------------- C35
\* C35: when the call that ends a hold increases adaptive_hold_secs, an
\* earlier call of the same hold returned newly_counted_rep=true.
C35_RaisedOnlyAfterCredit ==
    (FallingEdge /\ adaptive_hold_secs > Val(timer_obs.required))
        => timer_obs.run_reps >= 1

\* a hold of one starting call and one ending call, longer than the
\* requirement, raised the requirement without any repetition credited
C35_RaisedWithoutCredit ==
    /\ FallingEdge
    /\ timer_obs.run_reps = 0
    /\ Val(timer_obs.elapsed) > Val(timer_obs.required)
    /\ 2 * adaptive_hold_secs = Val(timer_obs.required) + Val(timer_obs.elapsed)
    /\ initial_hold_secs > 0

\* a hold in which a repetition was credited raised the requirement
C35_RaisedAfterCredit ==
    /\ FallingEdge
    /\ timer_obs.run_reps = 1
    /\ adaptive_hold_secs > Val(timer_obs.required)

\* ---------------------------------------------------------------- C36
\* C36: in every session loop the count never decreases, and one processed
\* frame adds at most 1 to it, also when both sides of a two-sided exercise
\* complete on the same frame.
C36_Step == count' \in {count, count + 1}

C36_CountGrowsByAtMostOne == [][C36_Step]_vars

\* in every session but heel slides a frame adds at most 1, and in heel
\* slides at most one per leg
C36_AllButHeel_Step ==
    /\ count' >= count
    /\ count' <= count + (IF unit = "HeelSlidesTracker" THEN 2 ELSE 1)

C36_AllButHeelByAtMostOne == [][C36_AllButHeel_Step]_vars

\* one frame of the heel-slides session completed the cycle of both legs and
\* was counted twice
C36_HeelCountsTwo ==
    /\ unit = "HeelSlidesTracker"
    /\ session_obs.frame = "pose"
    /\ session_obs.counted = << TRUE, TRUE >>
    /\ session_obs.announced = 2
    /\ count = 2

\* one frame of the straight-leg-raise session found both legs past their
\* hold and credited the left one only
C36_SlrCountsOne ==
    /\ unit = "any_straight_leg_raise.py"
    /\ session_obs.counted = << TRUE, FALSE >>
    /\ session_obs.held_before = << TRUE, TRUE >>
    /\ old_time[2] # None /\ now - Val(old_time[2]) > HOLD_SECS
    /\ count = 1

\* ---------------------------------------------------------------- C37
\* C37: in the heel-slides tracker with the default thresholds a leg's
\* cycle_completed is true only if, since the leg's last reset, at least 3
\* consecutive extended frames, then at least 3 consecutive flexed frames,
\* then at least 3 consecutive extended frames were seen in that order, and
\* only if at least min_cycle_time lay between the completion and the leg's
\* completion before it.
C37_CycleNeedsThreeRuns ==
    unit = "heel_slides.PoseTracker" =>
        \A side \in {"l", "r"} :
            pose_tracker[side].cycle_completed =>
                /\ tracker_obs.seen[side].stage = 3
                /\ \/ tracker_obs.seen[side].gap = None
                   \/ Val(tracker_obs.seen[side].gap) >= min_cycle_time

\* the left leg has completed its second cycle, one tick after its first
C37_Witness ==
    /\ unit = "heel_slides.PoseTracker"
    /\ pose_tracker.l.cycle_completed
    /\ tracker_obs.op = "update"
    /\ tracker_obs.seen.l.stage = 3
    /\ tracker_obs.seen.l.gap = Some(min_cycle_time)
    /\ tracker_obs.seen.l.completed_at = Some(now)

\* the left leg has shown the three runs again at the very time of its last
\* completion, and the cycle is not completed
C37_WitnessTooSoon ==
    /\ unit = "heel_slides.PoseTracker"
    /\ ~pose_tracker.l.cycle_completed
    /\ tracker_obs.op = "update"
    /\ tracker_obs.seen.l.stage = 3
    /\ tracker_obs.seen.l.completed_at = Some(now)

\* ---------------------------------------------------------------- C38
\* the trackers of the two runs, where two runs are followed
BothRuns == twin # None /\ "strict" \in DOMAIN twin

\* C38: lenient mode relaxes strict mode: after any sequence of updateTracker
\* calls with the same arguments and no reset, a resting flag that is true in
\* the strict tracker is true in the lenient one, and so is a target flag
\* (bridging, cobra, ankle-toe).
C38_LenientRelaxesStrict ==
    BothRuns =>
        /\ RestFlags(twin.strict)[1] => RestFlags(twin.lenient)[1]
        /\ TargetFlags(twin.strict)[1] => TargetFlags(twin.lenient)[1]

\* the strict tracker has reached its target pose, and so has the lenient one
C38_Witness ==
    /\ BothRuns
    /\ RestFlags(twin.strict)[1] /\ TargetFlags(twin.strict)[1]
    /\ RestFlags(twin.lenient)[1] /\ TargetFlags(twin.lenient)[1]

\* the lenient tracker is in its target pose on arguments that leave the
\* strict tracker, resting too, out of it
C38_WitnessLenientOnly ==
    /\ BothRuns
    /\ RestFlags(twin.strict)[1] /\ ~TargetFlags(twin.strict)[1]
    /\ TargetFlags(twin.lenient)[1]

\* ---------------------------------------------------------------- C39
\* C39: in the shoulder-blade-squeeze session every repetition starts from
\* rest: the timer times a squeeze, and the count rises, only after the
\* tracker was idle (new, reset by needs_reset at the end of the hold before,
\* or reset by a lying-down or low-visibility frame) and a later frame with
\* shoulder_hip_ratio above rest_threshold set resting_pose.
C39_EveryRepStartsFromRest ==
    unit = "ShoulderBladeSqueezeTracker" =>
        /\ session_obs.phase # "untimely"
        /\ rep_in_progress => session_obs.phase \in {"timing", "counted"}
        /\ session_obs.counted[1] => session_obs.phase = "counted"
        /\ session_obs.phase = "idle" => ~pose_tracker.resting_pose
        /\ session_obs.phase = "rested" => pose_tracker.resting_pose

\* the second repetition has been counted
C39_Witness ==
    /\ unit = "ShoulderBladeSqueezeTracker"
    /\ session_obs.counted[1]
    /\ session_obs.phase = "counted"
    /\ count = 2

\* after the first repetition the hold has ended, the tracker has been reset
\* and a frame has set resting_pose again
C39_WitnessRestedAgain ==
    /\ unit = "ShoulderBladeSqueezeTracker"
    /\ session_obs.phase = "rested"
    /\ count = 1
    /\ pose_tracker.resting_pose /\ ~pose_tracker.squeeze_pose
    /\ ~rep_in_progress

====
